---- MODULE Spec2Model ----
(***************************************************************************)
(* Model of the auto-torrent streaming/download core:                      *)
(*   stream.py    piece scheduling, media file selection, the range HTTP   *)
(*                handler, stream() and its teardown                       *)
(*   download.py  download_torrent() and the resume-data save              *)
(*   torrent.py   wait_for_metadata()                                      *)
(* Time is counted in tenths of a second.  Python's 0-based indices are    *)
(* kept: lists are functions over 0..n-1.                                  *)
(***************************************************************************)
EXTENDS Integers, Sequences, FiniteSets, TLC

VARIABLES
    fin,        \* arguments of the pure function under call
    fout,       \* its result, NoResult before the call
    layout,     \* the torrent served: offset, size of the media file, piece length
    have,       \* status.pieces: the set of pieces locally available
    prio,       \* the engine's piece priorities
    hs,         \* the HTTP request handlers: handler id -> its position and locals
    pc,         \* position of the running operation (stream, download)
    stop,       \* stop_event.is_set()
    timer,      \* time spent in the current deadline loop
    env,        \* session, torrent handle, server, save directory, SIGINT disposition
    loc,        \* the operation's arguments and local variables
    trace,      \* the calls made on the engine and the system, and the signals, in order
    result,     \* what the operation returned or raised
    sfile,      \* the durable state file of the background download
    parent,     \* the CLI process that starts the background download
    query,      \* the status command
    worker,     \* the SMS worker's download task
    chat        \* _conversations of the SMS server, its clock, and what was last read

fvars == <<fin, fout>>
evars == <<layout, have, prio>>
opvars == <<pc, stop, timer, env, loc, trace, result>>
xvars == <<sfile, parent, query, worker, chat>>
vars == <<fin, fout, layout, have, prio, hs, pc, stop, timer, env, loc, trace, result,
          sfile, parent, query, worker, chat>>

NoResult == [kind |-> "none"]

Min(a, b) == IF a < b THEN a ELSE b
Max(a, b) == IF a > b THEN a ELSE b

\* range(a, b) of Python: a, a+1, ..., b-1
Range(a, b) == a .. (b - 1)

\* a specification of a pure function runs no engine and no HTTP server
NoLayout == [files |-> <<>>, piece_length |-> 1, total_size |-> 0, file_offset |-> 0,
             file_size |-> 0]
NoServer ==
    /\ layout = NoLayout
    /\ have = {}
    /\ prio = <<>>
    /\ hs = <<>>

\* the state file, as a reader finds it: absent, a complete record, or
\* text that json.loads rejects (empty or cut short)
AbsentFile == [kind |-> "absent", status |-> "", progress |-> 0, pid |-> 0]
TornFile == [kind |-> "torn", status |-> "", progress |-> 0, pid |-> 0]
NoProcess == [pc |-> "none", state |-> AbsentFile, out |-> ""]
NoWorker == [pc |-> "none", elapsed |-> 0, final_status |-> "", notified |-> FALSE,
             polled |-> "", log |-> <<>>]

NoEnv == [session |-> FALSE, torrent |-> "none", metadata |-> FALSE, alert |-> "none",
          server |-> "none", dir |-> FALSE, sigint |-> "original", player |-> "none"]
NoLocals == [mode |-> "", keep |-> FALSE, status_bound |-> FALSE, progress |-> 0,
             is_seeding |-> FALSE, exc |-> "", ret |-> "", flushed |-> FALSE,
             state_file |-> FALSE, upd |-> [progress |-> 0, status |-> ""],
             upd_state |-> AbsentFile, after |-> ""]
NoOutcome == [kind |-> "none", status |-> "", error |-> "", progress |-> 0, info |-> ""]

\* no operation is running
NoOperation ==
    /\ pc = "none"
    /\ stop = FALSE
    /\ timer = 0
    /\ env = NoEnv
    /\ loc = NoLocals
    /\ trace = <<>>
    /\ result = NoOutcome

\* no background download, no status command, no SMS worker
NoChat == [conversations |-> <<>>, now |-> 0, read |-> [kind |-> "none"]]
NoBackground ==
    /\ sfile = AbsentFile
    /\ parent = NoProcess
    /\ query = NoProcess
    /\ worker = NoWorker
    /\ chat = NoChat

(***************************************************************************)
(* Bounds of the pure-function inputs                                      *)
(***************************************************************************)
MaxOffset == 9
MaxSize == 9
MaxPieceLen == 5
MaxPieces == 11
MaxBuffer == 5
MaxFiles == 3
MaxFileSize == 2

(***************************************************************************)
(* stream.py: _file_piece_range                                            *)
(***************************************************************************)
FirstPieceCeil(file_offset, piece_length) ==
    (file_offset + piece_length - 1) \div piece_length

FirstPiece(file_offset, piece_length) == file_offset \div piece_length

LastPiece(file_offset, file_size, piece_length) ==
    (file_offset + file_size - 1) \div piece_length

FilePieceRange(file_offset, file_size, piece_length) ==
    [kind |-> "range",
     first_piece |-> FirstPiece(file_offset, piece_length),
     last_piece |-> LastPiece(file_offset, file_size, piece_length)]

RangeInputs ==
    [fn : {"_file_piece_range"},
     file_offset : 0..MaxOffset,
     file_size : 0..MaxSize,
     piece_length : 1..MaxPieceLen]

InitRange ==
    /\ fin \in RangeInputs
    /\ fout = NoResult
    /\ NoServer
    /\ NoOperation
    /\ NoBackground

CallFilePieceRange ==
    /\ fin.fn = "_file_piece_range"
    /\ fout = NoResult
    /\ fout' = FilePieceRange(fin.file_offset, fin.file_size, fin.piece_length)
    /\ UNCHANGED <<fin, layout, have, prio, hs>>
    /\ UNCHANGED opvars
    /\ UNCHANGED xvars

NextRange == CallFilePieceRange

SpecRange == InitRange /\ [][NextRange]_vars

\* C3: for byte_offset >= 0, byte_length >= 1, piece_length >= 1 the range
\* returned by _file_piece_range satisfies
\* first*pl <= offset < (first+1)*pl, (last+1)*pl > offset+length-1 and
\* first <= last.
C3_PieceRangeCoversFile ==
    (fout.kind = "range" /\ fin.file_size >= 1) =>
        /\ fout.first_piece * fin.piece_length <= fin.file_offset
        /\ fin.file_offset < (fout.first_piece + 1) * fin.piece_length
        /\ (fout.last_piece + 1) * fin.piece_length
               > fin.file_offset + fin.file_size - 1
        /\ fout.first_piece <= fout.last_piece

\* a file that starts inside one piece and ends in a later one
C3_Witness ==
    /\ fout.kind = "range"
    /\ fin.file_size >= 1
    /\ fin.file_offset % fin.piece_length # 0
    /\ fout.first_piece < fout.last_piece

(***************************************************************************)
(* stream.py: _prioritize_for_streaming                                    *)
(***************************************************************************)
TOP_PRIORITY == 7
NORMAL_PRIORITY == 1

\* the tail loop starts one piece late
TailStartShort(first_piece, last_piece) ==
    Max(last_piece - 3, first_piece)

\* tail_start = max(last_piece - 4, first_piece)
TailStart(first_piece, last_piece) ==
    Max(last_piece - 4, first_piece)

\* the head loop runs one piece too far
HeadEndLong(first_piece, last_piece, buffer_pieces) ==
    Min(first_piece + buffer_pieces + 1, last_piece + 1)

\* the exclusive end of the head loop: min(first + buffer_pieces, last + 1)
HeadEnd(first_piece, last_piece, buffer_pieces) ==
    Min(first_piece + buffer_pieces, last_piece + 1)

\* priorities = [1] * num_pieces, then the head loop, then the tail loop
PrioritizeForStreaming(num_pieces, first_piece, last_piece, buffer_pieces) ==
    LET base == [i \in 0..(num_pieces - 1) |-> NORMAL_PRIORITY]
        head == [i \in DOMAIN base |->
                    IF i \in Range(first_piece,
                                   HeadEnd(first_piece, last_piece, buffer_pieces))
                    THEN TOP_PRIORITY ELSE base[i]]
        tail == [i \in DOMAIN head |->
                    IF i \in Range(TailStart(first_piece, last_piece), last_piece + 1)
                    THEN TOP_PRIORITY ELSE head[i]]
    IN  tail

PrioInputs ==
    {x \in [fn : {"_prioritize_for_streaming"},
            num_pieces : 1..MaxPieces,
            first_piece : 0..(MaxPieces - 1),
            last_piece : 0..(MaxPieces - 1),
            buffer_pieces : 0..MaxBuffer] :
        x.first_piece <= x.last_piece /\ x.last_piece < x.num_pieces}

InitPrio ==
    /\ fin \in PrioInputs
    /\ fout = NoResult
    /\ NoServer
    /\ NoOperation
    /\ NoBackground

CallPrioritizeForStreaming ==
    /\ fin.fn = "_prioritize_for_streaming"
    /\ fout = NoResult
    /\ fout' = [kind |-> "priorities",
                priorities |-> PrioritizeForStreaming(fin.num_pieces, fin.first_piece,
                                                      fin.last_piece, fin.buffer_pieces)]
    /\ UNCHANGED <<fin, layout, have, prio, hs>>
    /\ UNCHANGED opvars
    /\ UNCHANGED xvars

NextPrio == CallPrioritizeForStreaming

SpecPrio == InitPrio /\ [][NextPrio]_vars

\* C4: when last_piece - first_piece >= buffer_pieces + 5, exactly the pieces
\* of [first, first+B) and of [last-4, last] have priority 7 and every other
\* piece inside [first, last] has priority 1.
C4_HeadAndTailTop ==
    (fout.kind = "priorities"
        /\ fin.last_piece - fin.first_piece >= fin.buffer_pieces + 5) =>
        \A i \in fin.first_piece..fin.last_piece :
            IF \/ i \in fin.first_piece..(fin.first_piece + fin.buffer_pieces - 1)
               \/ i \in (fin.last_piece - 4)..fin.last_piece
            THEN fout.priorities[i] = 7
            ELSE fout.priorities[i] = 1

\* a range with a non-empty head window, a middle left at normal priority
\* and the five tail pieces
C4_Witness ==
    /\ fout.kind = "priorities"
    /\ fin.buffer_pieces >= 1
    /\ fin.last_piece - fin.first_piece >= fin.buffer_pieces + 5
    /\ fin.first_piece >= 1
    /\ fout.priorities[fin.first_piece] = 7
    /\ fout.priorities[fin.first_piece + fin.buffer_pieces] = 1
    /\ fout.priorities[fin.last_piece - 4] = 7

\* C5: when last_piece - first_piece < buffer_pieces + 5 the head and tail
\* windows together cover the range: every piece of [first, last] has
\* priority 7, none is left at (or put back to) priority 1.
C5_SmallRangeAllTop ==
    (fout.kind = "priorities"
        /\ fin.last_piece - fin.first_piece < fin.buffer_pieces + 5) =>
        \A i \in fin.first_piece..fin.last_piece : fout.priorities[i] = 7

\* a range longer than each window alone, covered only by both together
C5_Witness ==
    /\ fout.kind = "priorities"
    /\ fin.last_piece - fin.first_piece < fin.buffer_pieces + 5
    /\ fin.last_piece - fin.first_piece >= 5
    /\ fin.last_piece - fin.first_piece >= fin.buffer_pieces
    /\ \A i \in fin.first_piece..fin.last_piece : fout.priorities[i] = 7

\* C6: every piece outside [first_piece, last_piece] has priority 0 and the
\* map has exactly one entry per piece of the torrent.
C6_OutOfRangeSkipped ==
    fout.kind = "priorities" =>
        /\ DOMAIN fout.priorities = 0..(fin.num_pieces - 1)
        /\ \A i \in DOMAIN fout.priorities :
               (i < fin.first_piece \/ i > fin.last_piece) => fout.priorities[i] = 0

(***************************************************************************)
(* stream.py: _select_media_file                                           *)
(***************************************************************************)
MEDIA_EXTENSIONS ==
    {".mkv", ".mp4", ".avi", ".mov", ".wmv", ".flv", ".webm",
     ".m4v", ".mpg", ".mpeg", ".ts", ".m2ts", ".vob"}

\* The file paths of the modelled torrents, with what pathlib makes of them:
\* Path(path).name and Path(path).suffix.
Paths ==
    {[path |-> "movie.mkv", name |-> "movie.mkv", suffix |-> ".mkv"],
     [path |-> "Extras/SAMPLE.MP4", name |-> "SAMPLE.MP4", suffix |-> ".MP4"],
     [path |-> "readme.txt", name |-> "readme.txt", suffix |-> ".txt"],
     [path |-> "cover.jpg", name |-> "cover.jpg", suffix |-> ".jpg"]}

\* str.lower() on the suffixes above
Lower(s) ==
    CASE s = ".MP4" -> ".mp4"
      [] s = ".MKV" -> ".mkv"
      [] OTHER -> s

NoBest == [best_idx |-> -1, best_size |-> 0, best_name |-> ""]

\* a later file of equal size replaces the earlier one
BetterOrEqual(file, best) ==
    Lower(file.suffix) \in MEDIA_EXTENSIONS /\ file.size >= best.best_size

\* ext in MEDIA_EXTENSIONS and size > best_size
Better(file, best) ==
    Lower(file.suffix) \in MEDIA_EXTENSIONS /\ file.size > best.best_size

\* the for loop over range(files.num_files()), from index i on
RECURSIVE SelectLoop(_, _, _)
SelectLoop(files, i, best) ==
    IF i \notin DOMAIN files THEN best
    ELSE SelectLoop(files, i + 1,
                    IF Better(files[i], best)
                    THEN [best_idx |-> i, best_size |-> files[i].size,
                          best_name |-> files[i].name]
                    ELSE best)

SelectMediaFile(files) ==
    LET best == SelectLoop(files, 0, NoBest)
    IN  IF best.best_idx < 0
        THEN [kind |-> "StreamError",
              message |-> "No media files found in torrent. Files: ",
              listed |-> [i \in DOMAIN files |-> files[i].path]]
        ELSE [kind |-> "selected",
              best_idx |-> best.best_idx,
              best_name |-> best.best_name,
              best_size |-> best.best_size,
              file_priorities |-> [i \in DOMAIN files |->
                                      IF i = best.best_idx THEN 4 ELSE 0]]

TorrentFile == {[path |-> p.path, name |-> p.name, suffix |-> p.suffix, size |-> z] :
                   p \in Paths, z \in 0..MaxFileSize}

SelectInputs ==
    [fn : {"_select_media_file"},
     files : UNION {[0..(n - 1) -> TorrentFile] : n \in 1..MaxFiles}]

InitSelect ==
    /\ fin \in SelectInputs
    /\ fout = NoResult
    /\ NoServer
    /\ NoOperation
    /\ NoBackground

CallSelectMediaFile ==
    /\ fin.fn = "_select_media_file"
    /\ fout = NoResult
    /\ fout' = SelectMediaFile(fin.files)
    /\ UNCHANGED <<fin, layout, have, prio, hs>>
    /\ UNCHANGED opvars
    /\ UNCHANGED xvars

NextSelect == CallSelectMediaFile

SpecSelect == InitSelect /\ [][NextSelect]_vars

IsMedia(file) == Lower(file.suffix) \in MEDIA_EXTENSIONS

\* C7 as stated: the result is the largest file with a media extension, the
\* first one on a tie, and the call fails, listing all files, exactly when no
\* file has a media extension.
C7_SelectLargestMedia ==
    fout.kind # "none" =>
        LET media == {i \in DOMAIN fin.files : IsMedia(fin.files[i])}
        IN  /\ (fout.kind = "StreamError") <=> (media = {})
            /\ fout.kind = "StreamError" =>
                   fout.listed = [i \in DOMAIN fin.files |-> fin.files[i].path]
            /\ fout.kind = "selected" =>
                   /\ fout.best_idx \in media
                   /\ fout.best_size = fin.files[fout.best_idx].size
                   /\ fout.best_name = fin.files[fout.best_idx].name
                   /\ \A j \in media : fin.files[j].size <= fout.best_size
                   /\ \A j \in media : fin.files[j].size = fout.best_size
                                           => fout.best_idx <= j

\* C7 amended: as above, among the media files of size > 0; the call fails
\* exactly when no file with a media extension has a size above zero.
C7_SelectLargestNonEmptyMedia ==
    fout.kind # "none" =>
        LET media == {i \in DOMAIN fin.files :
                         IsMedia(fin.files[i]) /\ fin.files[i].size > 0}
        IN  /\ (fout.kind = "StreamError") <=> (media = {})
            /\ fout.kind = "StreamError" =>
                   fout.listed = [i \in DOMAIN fin.files |-> fin.files[i].path]
            /\ fout.kind = "selected" =>
                   /\ fout.best_idx \in media
                   /\ fout.best_size = fin.files[fout.best_idx].size
                   /\ fout.best_name = fin.files[fout.best_idx].name
                   /\ \A j \in media : fin.files[j].size <= fout.best_size
                   /\ \A j \in media : fin.files[j].size = fout.best_size
                                           => fout.best_idx <= j

\* two media files of the same largest size, one with an upper-case
\* extension, after a non-media file: the first of the two is returned
C7_Witness ==
    /\ fout.kind = "selected"
    /\ \E i, j \in DOMAIN fin.files :
          /\ i < j
          /\ fout.best_idx = i
          /\ i > 0
          /\ IsMedia(fin.files[j])
          /\ fin.files[j].size = fout.best_size
          /\ fin.files[i].suffix # fin.files[j].suffix

(***************************************************************************)
(* stream.py: _make_handler, _StreamHandler                                *)
(***************************************************************************)
WaitWindow == 300           \* deadline = time.monotonic() + 30
PollTick == 2               \* time.sleep(0.2)
LOOKAHEAD == 20             \* min(needed_last + 20, last_piece + 1)
INITIAL_PIECES == 5         \* min(piece_length * 5, file_size - 1)
CHUNK == 65536              \* chunk = 64 * 1024
DEFAULT_BUFFER_PIECES == 20 \* buffer_pieces: int = 20

\* The torrents of the model: the media file alone; the media file between
\* two other files; no media file at all.
Torrents ==
    {[files |-> <<[path |-> "movie.mkv", name |-> "movie.mkv", suffix |-> ".mkv",
                   size |-> 10000]>>,
      piece_length |-> 4096],
     [files |-> <<[path |-> "readme.txt", name |-> "readme.txt", suffix |-> ".txt",
                   size |-> 5000],
                  [path |-> "Extras/SAMPLE.MP4", name |-> "SAMPLE.MP4", suffix |-> ".MP4",
                   size |-> 150000],
                  [path |-> "cover.jpg", name |-> "cover.jpg", suffix |-> ".jpg",
                   size |-> 70000]>>,
      piece_length |-> 65536],
     [files |-> <<[path |-> "readme.txt", name |-> "readme.txt", suffix |-> ".txt",
                   size |-> 5000],
                  [path |-> "cover.jpg", name |-> "cover.jpg", suffix |-> ".jpg",
                   size |-> 500]>>,
      piece_length |-> 4096]}

\* the list of a torrent's files with Python's indices
FileList(t) == [i \in 0..(Len(t.files) - 1) |-> t.files[i + 1]]

\* files.file_offset(i): the sizes of the files before file i
RECURSIVE FileOffset(_, _)
FileOffset(files, i) ==
    IF i <= 0 THEN 0 ELSE FileOffset(files, i - 1) + files[i - 1].size

\* what stream() reads off the torrent: piece length, total size and, when
\* _select_media_file finds one, offset and size of the media file
LayoutOf(t) ==
    LET files == FileList(t)
        sel == SelectMediaFile(files)
        found == sel.kind = "selected"
    IN  [files |-> files,
         piece_length |-> t.piece_length,
         total_size |-> FileOffset(files, Len(t.files)),
         file_offset |-> IF found THEN FileOffset(files, sel.best_idx) ELSE 0,
         file_size |-> IF found THEN sel.best_size ELSE 0]

AllLayouts == {LayoutOf(t) : t \in Torrents}

\* the torrents with a media file
Layouts == {l \in AllLayouts : l.file_size > 0}

NumPieces(l) == (l.total_size + l.piece_length - 1) \div l.piece_length
Pieces(l) == 0..(NumPieces(l) - 1)
FileFirstPiece(l) == FilePieceRange(l.file_offset, l.file_size, l.piece_length).first_piece
FileLastPiece(l) == FilePieceRange(l.file_offset, l.file_size, l.piece_length).last_piece

\* A Range header is a sequence of tokens: a numeral is its value, the other
\* tokens are negative.
Token == [dash |-> -1, bytes_eq |-> -2, junk |-> -3]

\* range_header.replace("bytes=", "")
StripBytesEq(header) == SelectSeq(header, LAMBDA t : t # Token.bytes_eq)

\* range_spec.split("-")
RECURSIVE SplitDash(_)
SplitDash(spec) ==
    IF \A i \in 1..Len(spec) : spec[i] # Token.dash
    THEN <<spec>>
    ELSE LET k == CHOOSE i \in 1..Len(spec) :
                      spec[i] = Token.dash /\ \A j \in 1..(i - 1) : spec[j] # Token.dash
         IN  <<SubSeq(spec, 1, k - 1)>> \o SplitDash(SubSeq(spec, k + 1, Len(spec)))

\* int(s) succeeds on a single numeral
IsInt(part) == Len(part) = 1 /\ part[1] >= 0

ParseError == [ok |-> FALSE, start |-> 0, end |-> 0]

\* the try block of _serve_file: ValueError on a wrong number of parts or a
\* part that is no integer; an empty end means file_size - 1
ParseRange(header, file_size) ==
    LET parts == SplitDash(StripBytesEq(header))
    IN  IF Len(parts) # 2 THEN ParseError
        ELSE IF ~IsInt(parts[1]) THEN ParseError
        ELSE IF parts[2] = <<>>
             THEN [ok |-> TRUE, start |-> parts[1][1], end |-> file_size - 1]
        ELSE IF ~IsInt(parts[2]) THEN ParseError
        ELSE [ok |-> TRUE, start |-> parts[1][1], end |-> parts[2][1]]

NoResponse == [status |-> 0, content_range |-> <<>>, content_length |-> -1, body |-> 0]

IdleHandler ==
    [pc |-> "idle", method |-> "", ranged |-> FALSE, start |-> 0, end |-> 0,
     needed_first |-> 0, needed_last |-> 0, waited |-> 0, client_gone |-> FALSE,
     resp |-> NoResponse]

\* the pieces asked for go to the top, every other piece back to normal
BumpPrioritiesOnly(pr, needed_first, needed_last, last_piece) ==
    [p \in DOMAIN pr |->
        IF p \in Range(needed_first, Min(needed_last + LOOKAHEAD, last_piece + 1))
        THEN TOP_PRIORITY ELSE NORMAL_PRIORITY]

\* for p in range(needed_first, min(needed_last + 20, last_piece + 1)):
\*     handle.piece_priority(p, 7)
BumpPriorities(pr, needed_first, needed_last, last_piece) ==
    [p \in DOMAIN pr |->
        IF p \in Range(needed_first, Min(needed_last + LOOKAHEAD, last_piece + 1))
        THEN TOP_PRIORITY ELSE pr[p]]

\* the pieces the wait loop tests: range(needed_first, needed_last + 1)
Needed(h) == Range(hs[h].needed_first, hs[h].needed_last + 1)

\* the deadline is taken again on every iteration
DeadlineOpenAlways(waited) == TRUE

\* while time.monotonic() < deadline
DeadlineOpen(waited) == waited < WaitWindow

\* the end of _wait_for_pieces' arguments, then its first lines
EnterWait(h, method, ranged, start, end) ==
    LET nf == (layout.file_offset + start) \div layout.piece_length
        nl == (layout.file_offset + end) \div layout.piece_length
    IN  /\ hs' = [hs EXCEPT ![h] =
                    [@ EXCEPT !.pc = "waiting", !.method = method, !.ranged = ranged,
                              !.start = start, !.end = end,
                              !.needed_first = nf, !.needed_last = nl, !.waited = 0]]
        /\ prio' = BumpPriorities(prio, nf, nl, FileLastPiece(layout))

\* do_GET / do_HEAD up to the wait loop.  "if range_header" is false for a
\* missing and for an empty header.
HandleRequest(h, method, has_range, header) ==
    /\ hs[h].pc = "idle"
    /\ IF has_range /\ header # <<>>
       THEN LET r == ParseRange(header, layout.file_size)
            IN  IF ~r.ok
                THEN /\ hs' = [hs EXCEPT ![h] =
                                 [@ EXCEPT !.pc = "done", !.method = method,
                                           !.ranged = TRUE,
                                           !.resp = [NoResponse EXCEPT !.status = 400]]]
                     /\ UNCHANGED prio
                ELSE EnterWait(h, method, TRUE, r.start,
                               Min(r.end, layout.file_size - 1))
       ELSE EnterWait(h, method, FALSE, 0,
                      Min(layout.piece_length * INITIAL_PIECES, layout.file_size - 1))
    /\ UNCHANGED <<fin, fout, layout, have>>
    /\ UNCHANGED opvars
    /\ UNCHANGED xvars

\* one iteration of the wait loop: status.pieces is read; all_ready returns
\* True, otherwise the thread sleeps a tick
WaitPoll(h) ==
    /\ hs[h].pc = "waiting"
    /\ DeadlineOpen(hs[h].waited)
    /\ IF Needed(h) \subseteq have
       THEN hs' = [hs EXCEPT ![h].pc = "ready"]
       ELSE hs' = [hs EXCEPT ![h].waited = @ + PollTick]
    /\ UNCHANGED <<fin, fout, layout, have, prio>>
    /\ UNCHANGED opvars
    /\ UNCHANGED xvars

\* the loop ends on the deadline: send_error(503, "Buffering timeout")
WaitTimeout(h) ==
    /\ hs[h].pc = "waiting"
    /\ ~DeadlineOpen(hs[h].waited)
    /\ hs' = [hs EXCEPT ![h] =
                [@ EXCEPT !.pc = "done", !.resp = [NoResponse EXCEPT !.status = 503]]]
    /\ UNCHANGED <<fin, fout, layout, have, prio>>
    /\ UNCHANGED opvars
    /\ UNCHANGED xvars

\* The part of the media file on disk when the engine grows the file with
\* the pieces it writes: up to the end of the highest available piece.
SparseExtent(l, hv) ==
    LET mine == {p \in hv : FileFirstPiece(l) <= p /\ p <= FileLastPiece(l)}
        ends == {Min(l.file_size, (p + 1) * l.piece_length - l.file_offset) : p \in mine}
    IN  IF ends = {} THEN 0 ELSE CHOOSE e \in ends : \A x \in ends : x <= e

\* the engine either grows the file or creates it at its full size
DiskLengths(l, hv) == {SparseExtent(l, hv), l.file_size}

\* the read loop: f.read(min(chunk, remaining)) until remaining is 0 or the
\* file ends; the number of bytes written to the client
RECURSIVE ReadLoop(_, _, _, _)
ReadLoop(pos, remaining, disk_len, sent) ==
    IF remaining <= 0 THEN sent
    ELSE LET data == Min(Min(CHUNK, remaining), Max(disk_len - pos, 0))
         IN  IF data = 0 THEN sent
             ELSE ReadLoop(pos + data, remaining - data, disk_len, sent + data)

\* length = end - start
LengthShort(start, end) == end - start

\* length = end - start + 1
RangeLength(start, end) == end - start + 1

\* _serve_file after the wait: status line, headers, then the body unless
\* head_only.  A client that has gone makes the first write raise
\* BrokenPipeError, which is swallowed.
Respond(h, disk_len, client_gone) ==
    /\ hs[h].pc = "ready"
    /\ disk_len \in DiskLengths(layout, have)
    /\ LET r == hs[h]
           start == r.start
           length == IF r.ranged THEN RangeLength(r.start, r.end) ELSE layout.file_size
           body == IF r.method = "HEAD" \/ client_gone THEN 0
                   ELSE ReadLoop(start, length, disk_len, 0)
       IN  hs' = [hs EXCEPT ![h] =
                    [@ EXCEPT !.pc = "done", !.client_gone = client_gone,
                              !.resp = IF r.ranged
                                       THEN [status |-> 206,
                                             content_range |-> <<r.start, r.end,
                                                                 layout.file_size>>,
                                             content_length |-> length,
                                             body |-> body]
                                       ELSE [status |-> 200,
                                             content_range |-> <<>>,
                                             content_length |-> layout.file_size,
                                             body |-> body]]]
    /\ UNCHANGED <<fin, fout, layout, have, prio>>
    /\ UNCHANGED opvars
    /\ UNCHANGED xvars

\* the engine completes a piece it has been asked for
PieceArrives(p) ==
    /\ p \in Pieces(layout) \ have
    /\ prio[p] > 0
    /\ env.torrent = "added"
    /\ env.metadata
    /\ have' = have \cup {p}
    /\ UNCHANGED <<fin, fout, layout, prio, hs>>
    /\ UNCHANGED opvars
    /\ UNCHANGED xvars

\* byte positions the requests name
Marks(l) == {0, 1023, l.piece_length, l.file_size - 1, l.file_size + 5}

RangeHeaders(l) ==
    {<<Token.bytes_eq, a, Token.dash, b>> : a \in Marks(l), b \in Marks(l)}
    \cup {<<Token.bytes_eq, a, Token.dash>> : a \in Marks(l)}
    \cup {<<Token.bytes_eq, Token.dash, 1023>>,
          <<Token.bytes_eq, Token.junk, Token.dash, 1023>>,
          <<Token.bytes_eq, 0, Token.dash, Token.junk>>,
          <<Token.bytes_eq, 0, Token.dash, 1023, Token.dash, 4096>>,
          <<Token.bytes_eq, 0>>,
          <<0, Token.dash, 1023>>,
          <<>>}

InitHttp ==
    /\ fin = NoResult
    /\ fout = NoResult
    /\ layout \in Layouts
    /\ have \in SUBSET Pieces(layout)
    /\ prio = PrioritizeForStreaming(NumPieces(layout), FileFirstPiece(layout),
                                     FileLastPiece(layout), DEFAULT_BUFFER_PIECES)
    /\ hs = [h \in {1} |-> IdleHandler]
    /\ pc = "serving"
    /\ stop = FALSE
    /\ timer = 0
    /\ env = [NoEnv EXCEPT !.session = TRUE, !.torrent = "added", !.metadata = TRUE,
                           !.server = "serving", !.dir = TRUE, !.sigint = "handler"]
    /\ loc = [NoLocals EXCEPT !.mode = "stream"]
    /\ trace = <<>>
    /\ result = NoOutcome
    /\ NoBackground

\* the steps of handler h's thread after it has read the request
HandlerStep(h) ==
    /\ h \in DOMAIN hs
    /\ \/ WaitPoll(h)
       \/ WaitTimeout(h)
       \/ \E d \in DiskLengths(layout, have), gone \in BOOLEAN : Respond(h, d, gone)

NextHttp ==
    \/ \E h \in DOMAIN hs, method \in {"GET", "HEAD"} :
          \/ HandleRequest(h, method, FALSE, <<>>)
          \/ \E header \in RangeHeaders(layout) : HandleRequest(h, method, TRUE, header)
    \/ \E h \in DOMAIN hs : WaitPoll(h)
    \/ \E h \in DOMAIN hs : WaitTimeout(h)
    \/ \E h \in DOMAIN hs, d \in DiskLengths(layout, have), gone \in BOOLEAN :
          Respond(h, d, gone)
    \/ \E p \in Pieces(layout) : PieceArrives(p)

SpecHttp == InitHttp /\ [][NextHttp]_vars

\* a Range request that was parsed, with start <= end after the clamp
RangeRequest(h) ==
    /\ hs[h].ranged
    /\ hs[h].pc \in {"waiting", "ready", "done"}
    /\ hs[h].resp.status # 400
    /\ 0 <= hs[h].start
    /\ hs[h].start <= hs[h].end

\* the poll finds the covering pieces present: the handler goes on to answer
PollFindsPieces(h) ==
    (/\ hs[h].pc = "waiting"
     /\ DeadlineOpen(hs[h].waited)
     /\ Needed(h) \subseteq have
     /\ hs'[h] # hs[h]) => hs'[h].pc = "ready"

\* C1 as stated: every Range request bytes=start-end with 0 <= start <= end
\* (end clamped to S-1) whose covering pieces are available is answered 206
\* with Content-Range start-end/S, Content-Length end-start+1 and a body of
\* end-start+1 bytes.
C1_RangeServed ==
    \A h \in DOMAIN hs :
        (RangeRequest(h) /\ hs[h].pc = "done" /\ hs[h].resp.status # 503) =>
            /\ hs[h].resp.status = 206
            /\ hs[h].resp.content_range = <<hs[h].start, hs[h].end, layout.file_size>>
            /\ hs[h].resp.content_length = hs[h].end - hs[h].start + 1
            /\ hs[h].resp.body = hs[h].end - hs[h].start + 1

\* C1 amended: the same status and headers for every such request, GET or
\* HEAD, answered as soon as a poll finds the covering pieces; the body of
\* end-start+1 bytes for a GET whose client stays connected, no body for HEAD.
C1_GetRangeServed ==
    /\ [](\A h \in DOMAIN hs :
            (RangeRequest(h) /\ hs[h].pc = "done" /\ hs[h].resp.status # 503) =>
                /\ hs[h].resp.status = 206
                /\ hs[h].resp.content_range
                       = <<hs[h].start, hs[h].end, layout.file_size>>
                /\ hs[h].resp.content_length = hs[h].end - hs[h].start + 1
                /\ (hs[h].method = "GET" /\ ~hs[h].client_gone)
                       => hs[h].resp.body = hs[h].end - hs[h].start + 1
                /\ hs[h].method = "HEAD" => hs[h].resp.body = 0)
    /\ [][\A h \in DOMAIN hs : RangeRequest(h) => PollFindsPieces(h)]_vars

\* GET with Range: bytes=0-1023 on the 10000-byte file: 206, 0-1023/10000,
\* Content-Length 1024 and 1024 bytes of body
C1_Witness ==
    \E h \in DOMAIN hs :
        /\ hs[h].pc = "done"
        /\ hs[h].method = "GET"
        /\ hs[h].ranged
        /\ layout.file_size = 10000
        /\ hs[h].resp = [status |-> 206, content_range |-> <<0, 1023, 10000>>,
                         content_length |-> 1024, body |-> 1024]

\* C2: a request whose covering pieces do not become available is answered
\* 503 when the 30 s window has passed.  The handler ends: its wait never
\* lasts longer than the window plus one poll tick, a waiting handler can
\* always take its next step, and every such step ends the wait or brings
\* it a tick nearer to the deadline.
C2_TimeoutAnswers503 ==
    /\ [](\A h \in DOMAIN hs :
            /\ hs[h].waited <= WaitWindow + PollTick
            /\ (hs[h].pc = "done" /\ hs[h].resp.status = 503)
                   => hs[h].waited >= WaitWindow
            /\ (hs[h].pc = "done" /\ hs[h].resp.status # 400
                    /\ ~(Needed(h) \subseteq have))
                   => hs[h].resp.status = 503
            /\ hs[h].pc \in {"waiting", "ready"} => ENABLED HandlerStep(h))
    /\ [][\A h \in DOMAIN hs :
            (hs[h].pc = "waiting" /\ hs'[h] # hs[h]) =>
                \/ hs'[h].pc \in {"ready", "done"}
                \/ hs'[h].pc = "waiting" /\ hs'[h].waited = hs[h].waited + PollTick]_vars

\* a Range request answered 503 after the whole window, a covering piece
\* still missing
C2_Witness ==
    \E h \in DOMAIN hs :
        /\ hs[h].pc = "done"
        /\ hs[h].ranged
        /\ hs[h].resp.status = 503
        /\ hs[h].waited >= WaitWindow
        /\ ~(Needed(h) \subseteq have)

(***************************************************************************)
(* The engine and the signal, as the operations see them                   *)
(***************************************************************************)
\* the positions of event e in the trace
At(e) == {i \in 1..Len(trace) : trace[i] = e}

\* e occurs, and its first occurrence is before every occurrence of f
Before(e, f) == At(e) # {} /\ \A i \in At(f) : \E j \in At(e) : j < i

\* the handler stays installed
RestoredSigintKept == "handler"

\* signal.signal(signal.SIGINT, original_sigint)
RestoredSigint == "original"

\* SIGINT while the operation's handler is installed: stop_event.set()
Sigint ==
    /\ env.sigint = "handler"
    /\ ~stop
    /\ stop' = TRUE
    /\ trace' = Append(trace, "sigint")
    /\ UNCHANGED <<fin, fout, layout, have, prio, hs, pc, timer, env, loc, result>>
    /\ UNCHANGED xvars

\* the peers deliver the torrent's metadata
MetadataArrives ==
    /\ env.torrent = "added"
    /\ ~env.metadata
    /\ env' = [env EXCEPT !.metadata = TRUE]
    /\ UNCHANGED <<fin, fout, layout, have, prio, hs, pc, stop, timer, loc, trace, result>>
    /\ UNCHANGED xvars

\* the engine posts save_resume_data_alert or save_resume_data_failed_alert
ResumeAlert ==
    /\ env.torrent = "added"
    /\ env.alert = "requested"
    /\ env' = [env EXCEPT !.alert = "posted"]
    /\ UNCHANGED <<fin, fout, layout, have, prio, hs, pc, stop, timer, loc, trace, result>>
    /\ UNCHANGED xvars

(***************************************************************************)
(* torrent.py: wait_for_metadata; stream.py: _wait_for_metadata            *)
(***************************************************************************)
MetadataTimeout == 1200     \* timeout: int = 120
MetaSleep == 10             \* time.sleep(1)

\* remaining = int(deadline - time.monotonic()), in seconds
Remaining(t) == (MetadataTimeout - t) \div 10

ErrorOf(mode) == IF mode = "stream" THEN "StreamError" ELSE "TorrentError"
AfterMetadata(mode) == IF mode = "stream" THEN "select" ELSE "poll"
FinallyOf(mode) == IF mode = "stream" THEN "st_finally" ELSE "dl_finally"

\* where download_torrent returns or raises to: _execute_download_fg, or
\* run_background_download when it runs as the background process
CallerOf(mode) == IF mode = "background" THEN "bg_return" ELSE "fg_finally"

\* while not handle.has_metadata(): the loop ends, torrent_file() is returned
MetaWaitDone ==
    /\ pc = "meta_wait"
    /\ env.metadata
    /\ pc' = AfterMetadata(loc.mode)
    /\ timer' = 0
    /\ UNCHANGED <<fin, fout, layout, have, prio, hs, stop, env, loc, trace, result>>
    /\ UNCHANGED xvars

\* one iteration: post_torrent_updates, the timeout test, sleep(1)
MetaWaitIter ==
    /\ pc = "meta_wait"
    /\ ~env.metadata
    /\ IF Remaining(timer) <= 0
       THEN /\ loc' = [loc EXCEPT !.exc = ErrorOf(loc.mode)]
            /\ pc' = FinallyOf(loc.mode)
            /\ trace' = Append(trace, "exit")
            /\ UNCHANGED timer
       ELSE /\ timer' = timer + MetaSleep
            /\ UNCHANGED <<pc, loc, trace>>
    /\ UNCHANGED <<fin, fout, layout, have, prio, hs, stop, env, result>>
    /\ UNCHANGED xvars

(***************************************************************************)
(* download.py: download_torrent, _save_resume_data;                       *)
(* cli.py: _execute_download_fg                                            *)
(***************************************************************************)
ResumeWindow == 50          \* deadline = time.monotonic() + 5
ResumeSleep == 1            \* time.sleep(0.1)

\* _execute_download_fg up to the call: dest.mkdir, the SIGINT handler
FgBegin ==
    /\ pc = "fg_start"
    /\ env' = [env EXCEPT !.dir = TRUE, !.sigint = "handler"]
    /\ pc' = "dl_session"
    /\ UNCHANGED <<fin, fout, layout, have, prio, hs, stop, timer, loc, trace, result>>
    /\ UNCHANGED xvars

\* download_torrent up to create_session, which is outside the try block:
\* what it raises leaves the function as it is
DlCreateSession(ok) ==
    /\ pc = "dl_session"
    /\ IF ok
       THEN /\ env' = [env EXCEPT !.session = TRUE]
            /\ pc' = "dl_add"
            /\ trace' = Append(trace, "start")
            /\ UNCHANGED result
       ELSE /\ result' = [NoOutcome EXCEPT !.kind = "raise", !.error = "RuntimeError"]
            /\ pc' = CallerOf(loc.mode)
            /\ trace' = trace \o <<"start", "exit">>
            /\ UNCHANGED env
    /\ UNCHANGED <<fin, fout, layout, have, prio, hs, stop, timer, loc>>
    /\ UNCHANGED xvars

\* add_magnet, outside the try block as well
DlAddMagnet(ok) ==
    /\ pc = "dl_add"
    /\ IF ok
       THEN /\ env' = [env EXCEPT !.torrent = "added"]
            /\ pc' = "meta_wait"
            /\ UNCHANGED <<result, trace>>
       ELSE /\ result' = [NoOutcome EXCEPT !.kind = "raise", !.error = "RuntimeError"]
            /\ pc' = CallerOf(loc.mode)
            /\ trace' = Append(trace, "exit")
            /\ UNCHANGED env
    /\ timer' = 0
    /\ UNCHANGED <<fin, fout, layout, have, prio, hs, stop, loc>>
    /\ UNCHANGED xvars

\* _update_state_progress is entered: what to put in the record, and
\* where the caller goes on afterwards
StartUpdate(l, progress, status, after) ==
    [l EXCEPT !.upd = [progress |-> progress, status |-> status], !.after = after]

\* "if status.is_seeding": the completed record is written when there is a
\* state file, then break; otherwise sleep(1)
SeedingCheck(l) ==
    IF l.is_seeding
    THEN /\ trace' = Append(trace, "is_seeding")
         /\ IF l.state_file
            THEN /\ loc' = StartUpdate(l, NumPieces(layout), "completed", "after_loop")
                 /\ pc' = "upd_read"
            ELSE /\ loc' = l
                 /\ pc' = "after_loop"
    ELSE /\ loc' = l
         /\ pc' = "poll"
         /\ UNCHANGED trace

\* one iteration of "while not stop_event.is_set()": post_torrent_updates,
\* status = handle.status(), the progress write when there is a state file
\* and the interval has passed, break when seeding, otherwise sleep(1)
PollIter(due) ==
    /\ pc = "poll"
    /\ ~stop
    /\ LET l == [loc EXCEPT !.status_bound = TRUE,
                            !.flushed = TRUE,
                            !.progress = Cardinality(have),
                            !.is_seeding = (have = Pieces(layout))]
       IN  IF l.state_file /\ due
           THEN /\ loc' = StartUpdate(l, l.progress, "", "poll_seeding")
                /\ pc' = "upd_read"
                /\ UNCHANGED trace
           ELSE SeedingCheck(l)
    /\ UNCHANGED <<fin, fout, layout, have, prio, hs, stop, timer, env, result>>
    /\ UNCHANGED xvars

\* the rest of the iteration after the progress write
PollSeeding ==
    /\ pc = "poll_seeding"
    /\ SeedingCheck(loc)
    /\ UNCHANGED <<fin, fout, layout, have, prio, hs, stop, timer, env, result>>
    /\ UNCHANGED xvars

\* the loop test finds the stop flag set
PollExit ==
    /\ pc = "poll"
    /\ stop
    /\ pc' = "after_loop"
    /\ UNCHANGED <<fin, fout, layout, have, prio, hs, stop, timer, env, loc, trace, result>>
    /\ UNCHANGED xvars

\* handle.save_resume_data(...); deadline = time.monotonic() + 5
RequestResume(next) ==
    /\ trace' = Append(trace, "save_resume_data")
    /\ env' = [env EXCEPT !.alert = "requested"]
    /\ timer' = 0
    /\ pc' = next

\* "if stop_event.is_set()" after the loop: the interrupted branch starts
\* _save_resume_data, otherwise completed is returned
AfterLoop ==
    /\ pc = "after_loop"
    /\ IF stop
       THEN /\ RequestResume("save1_wait")
            /\ UNCHANGED loc
       ELSE /\ loc' = [loc EXCEPT !.ret = "completed", !.progress = NumPieces(layout)]
            /\ pc' = "dl_finally"
            /\ trace' = Append(trace, "exit")
            /\ UNCHANGED <<env, timer>>
    /\ UNCHANGED <<fin, fout, layout, have, prio, hs, stop, result>>
    /\ UNCHANGED xvars

\* _save_resume_data returns.  In the interrupted branch the return value is
\* built next: status.progress raises UnboundLocalError when the loop body
\* never ran, and "except Exception" turns it into TorrentError.
ResumeReturns ==
    IF pc = "save1_wait"
    THEN /\ loc' = IF loc.status_bound
                   THEN [loc EXCEPT !.ret = "interrupted"]
                   ELSE [loc EXCEPT !.exc = "TorrentError"]
         /\ pc' = "dl_finally"
         /\ trace' = Append(trace, "exit")
    ELSE /\ pc' = "dl_remove"
         /\ UNCHANGED <<loc, trace>>

\* while time.monotonic() < deadline
ResumeOpen(t) == t < ResumeWindow

\* one iteration of the wait for the alert: pop_alerts, return on either
\* alert, otherwise sleep(0.1)
ResumeWaitIter ==
    /\ pc \in {"save1_wait", "save2_wait"}
    /\ ResumeOpen(timer)
    /\ IF env.alert = "posted"
       THEN /\ env' = [env EXCEPT !.alert = "none"]
            /\ ResumeReturns
            /\ UNCHANGED timer
       ELSE /\ timer' = timer + ResumeSleep
            /\ UNCHANGED <<pc, env, loc, trace>>
    /\ UNCHANGED <<fin, fout, layout, have, prio, hs, stop, result>>
    /\ UNCHANGED xvars

\* no alert within 5 s: _save_resume_data returns all the same
ResumeWaitTimeout ==
    /\ pc \in {"save1_wait", "save2_wait"}
    /\ ~ResumeOpen(timer)
    /\ ResumeReturns
    /\ UNCHANGED <<fin, fout, layout, have, prio, hs, stop, timer, env, result>>
    /\ UNCHANGED xvars

\* finally: _save_resume_data again, inside try/except
DlFinally ==
    /\ pc = "dl_finally"
    /\ RequestResume("save2_wait")
    /\ UNCHANGED <<fin, fout, layout, have, prio, hs, stop, loc, result>>
    /\ UNCHANGED xvars

\* finally: session.remove_torrent(handle); the function returns or raises
DlRemove ==
    /\ pc = "dl_remove"
    /\ trace' = Append(trace, "remove_torrent")
    /\ env' = [env EXCEPT !.torrent = "removed"]
    /\ result' = IF loc.exc # ""
                 THEN [NoOutcome EXCEPT !.kind = "raise", !.error = loc.exc]
                 ELSE [NoOutcome EXCEPT !.kind = "return", !.status = loc.ret,
                                        !.progress = loc.progress]
    /\ pc' = CallerOf(loc.mode)
    /\ UNCHANGED <<fin, fout, layout, have, prio, hs, stop, timer, loc>>
    /\ UNCHANGED xvars

\* _execute_download_fg after the call: TorrentError becomes status
\* "failed"; finally the former SIGINT disposition is put back
FgEnd ==
    /\ pc = "fg_finally"
    /\ env' = [env EXCEPT !.sigint = RestoredSigint]
    /\ result' = [result EXCEPT !.info =
                     IF result.kind = "return" THEN result.status
                     ELSE IF result.error = "TorrentError" THEN "failed"
                     ELSE ""]
    /\ pc' = "done"
    /\ UNCHANGED <<fin, fout, layout, have, prio, hs, stop, timer, loc, trace>>
    /\ UNCHANGED xvars

InitDownload ==
    /\ fin = NoResult
    /\ fout = NoResult
    /\ layout \in Layouts
    /\ have = {}
    /\ prio = [p \in Pieces(layout) |-> 4]
    /\ hs = <<>>
    /\ pc = "fg_start"
    /\ stop = FALSE
    /\ timer = 0
    /\ env = NoEnv
    /\ loc = [NoLocals EXCEPT !.mode = "download"]
    /\ trace = <<>>
    /\ result = NoOutcome
    /\ NoBackground

NextDownload ==
    \/ FgBegin
    \/ \E ok \in BOOLEAN : DlCreateSession(ok)
    \/ \E ok \in BOOLEAN : DlAddMagnet(ok)
    \/ MetaWaitDone
    \/ MetaWaitIter
    \/ \E due \in BOOLEAN : PollIter(due)
    \/ PollExit
    \/ AfterLoop
    \/ ResumeWaitIter
    \/ ResumeWaitTimeout
    \/ DlFinally
    \/ DlRemove
    \/ FgEnd
    \/ Sigint
    \/ MetadataArrives
    \/ ResumeAlert
    \/ \E p \in Pieces(layout) : PieceArrives(p)

SpecDownload == InitDownload /\ [][NextDownload]_vars

(***************************************************************************)
(* cli.py: _write_state, _read_state, _check_pid, _resolve_status,         *)
(* _execute_download_bg, cmd_status;                                       *)
(* download.py: _update_state_progress, run_background_download            *)
(***************************************************************************)
\* the pid recorded for the background process; 0 stands for None
ChildPid == 1

\* _check_pid: os.kill(pid, 0) finds the background process
CheckPid(pid) == pid = ChildPid /\ pc \notin {"unborn", "done"}

\* path.exists() and any(path.iterdir()): the engine has stored a piece
DirNonEmpty == env.dir /\ have # {}

\* the directory is not looked at: a process that is gone has failed
ResolvedWhenGoneBlind == "failed"

\* if path.exists() and any(path.iterdir()): completed, else failed
ResolvedWhenGone == IF DirNonEmpty THEN "completed" ELSE "failed"

\* _resolve_status
ResolveStatus(state) ==
    IF state.status # "downloading" THEN state.status
    ELSE IF state.pid # 0 /\ ~CheckPid(state.pid)
         THEN ResolvedWhenGone
         ELSE "downloading"

\* _update_state_progress: state_file.read_text() and json.loads.  A missing
\* file (OSError) or text that does not parse (JSONDecodeError) ends the
\* update without a write.
UpdRead ==
    /\ pc = "upd_read"
    /\ IF sfile.kind = "record"
       THEN /\ loc' = [loc EXCEPT !.upd_state =
                          [sfile EXCEPT !.progress = loc.upd.progress,
                                        !.status = IF loc.upd.status # ""
                                                   THEN loc.upd.status ELSE @]]
            /\ pc' = "upd_open"
       ELSE /\ pc' = loc.after
            /\ UNCHANGED loc
    /\ UNCHANGED <<fin, fout, layout, have, prio, hs, stop, timer, env, trace, result>>
    /\ UNCHANGED xvars

\* _update_state_progress: write_text opens the file for writing, which
\* empties it
UpdOpen ==
    /\ pc = "upd_open"
    /\ sfile' = TornFile
    /\ pc' = "upd_write"
    /\ UNCHANGED <<fin, fout, layout, have, prio, hs, stop, timer, env, loc, trace, result>>
    /\ UNCHANGED <<parent, query, worker, chat>>

\* _update_state_progress: write_text writes the text and closes the file
UpdWrite ==
    /\ pc = "upd_write"
    /\ sfile' = loc.upd_state
    /\ pc' = loc.after
    /\ UNCHANGED <<fin, fout, layout, have, prio, hs, stop, timer, env, loc, trace, result>>
    /\ UNCHANGED <<parent, query, worker, chat>>

\* run_background_download up to the call: the SIGINT and SIGTERM handlers
BgEntry ==
    /\ pc = "bg_entry"
    /\ env' = [env EXCEPT !.sigint = "handler"]
    /\ pc' = "dl_session"
    /\ UNCHANGED <<fin, fout, layout, have, prio, hs, stop, timer, loc, trace, result>>
    /\ UNCHANGED xvars

\* run_background_download after the call: the return value is dropped; an
\* exception is answered with the failed record.  Then the process ends.
BgReturn ==
    /\ pc = "bg_return"
    /\ IF result.kind = "raise"
       THEN /\ loc' = StartUpdate(loc, 0, "failed", "done")
            /\ pc' = "upd_read"
       ELSE /\ pc' = "done"
            /\ UNCHANGED loc
    /\ UNCHANGED <<fin, fout, layout, have, prio, hs, stop, timer, env, trace, result>>
    /\ UNCHANGED xvars

\* _execute_download_bg: dest.mkdir, the first record (no pid yet),
\* _write_state opens the file
ParentOpen1 ==
    /\ parent.pc = "bg_start"
    /\ env' = [env EXCEPT !.dir = TRUE]
    /\ parent' = [parent EXCEPT !.pc = "write1",
                                !.state = [kind |-> "record", status |-> "downloading",
                                           progress |-> 0, pid |-> 0]]
    /\ sfile' = TornFile
    /\ UNCHANGED <<fin, fout, layout, have, prio, hs, pc, stop, timer, loc, trace, result>>
    /\ UNCHANGED <<query, worker, chat>>

\* _write_state: the text is written, the file closed.  When the second
\* write ends, out notes whether the background process has begun its work.
ParentWrite ==
    /\ parent.pc \in {"write1", "write2"}
    /\ sfile' = parent.state
    /\ parent' = [parent EXCEPT !.pc = IF parent.pc = "write1" THEN "spawn" ELSE "returned",
                                !.out = IF parent.pc = "write1" THEN ""
                                        ELSE IF pc = "bg_entry" THEN "returned first"
                                        ELSE "returned"]
    /\ UNCHANGED <<fin, fout, layout, have, prio, hs, pc, stop, timer, env, loc, trace, result>>
    /\ UNCHANGED <<query, worker, chat>>

\* proc.start(); state["pid"] = proc.pid
ParentSpawn ==
    /\ parent.pc = "spawn"
    /\ pc = "unborn"
    /\ pc' = "bg_entry"
    /\ parent' = [parent EXCEPT !.pc = "open2", !.state = [@ EXCEPT !.pid = ChildPid]]
    /\ UNCHANGED <<fin, fout, layout, have, prio, hs, stop, timer, env, loc, trace, result>>
    /\ UNCHANGED <<sfile, query, worker, chat>>

\* the second _write_state opens the file
ParentOpen2 ==
    /\ parent.pc = "open2"
    /\ sfile' = TornFile
    /\ parent' = [parent EXCEPT !.pc = "write2"]
    /\ UNCHANGED <<fin, fout, layout, have, prio, hs, pc, stop, timer, env, loc, trace, result>>
    /\ UNCHANGED <<query, worker, chat>>

\* cmd_status with a download id: _read_state, then _resolve_status.  Text
\* that does not parse raises JSONDecodeError out of the command.
QueryRead ==
    /\ query.pc = "idle"
    /\ query' = IF sfile.kind = "absent"
                THEN [query EXCEPT !.out = "not_found"]
                ELSE IF sfile.kind = "torn"
                THEN [query EXCEPT !.out = "JSONDecodeError"]
                ELSE [query EXCEPT !.pc = "open", !.out = "",
                                   !.state = [sfile EXCEPT !.status = ResolveStatus(sfile)]]
    /\ UNCHANGED <<fin, fout, layout, have, prio, hs, pc, stop, timer, env, loc, trace, result>>
    /\ UNCHANGED <<sfile, parent, worker, chat>>

\* cmd_status: _write_state opens the file
QueryOpen ==
    /\ query.pc = "open"
    /\ sfile' = TornFile
    /\ query' = [query EXCEPT !.pc = "write"]
    /\ UNCHANGED <<fin, fout, layout, have, prio, hs, pc, stop, timer, env, loc, trace, result>>
    /\ UNCHANGED <<parent, worker, chat>>

\* cmd_status: the text is written, then the record is printed
QueryWrite ==
    /\ query.pc = "write"
    /\ sfile' = query.state
    /\ query' = [query EXCEPT !.pc = "idle", !.out = query.state.status]
    /\ UNCHANGED <<fin, fout, layout, have, prio, hs, pc, stop, timer, env, loc, trace, result>>
    /\ UNCHANGED <<parent, worker, chat>>

\* the torrent of the background download: one file in one piece
BackgroundLayout ==
    LayoutOf([files |-> <<[path |-> "book.m4b", name |-> "book.m4b", suffix |-> ".m4b",
                           size |-> 3000]>>,
              piece_length |-> 4096])

InitBackground ==
    /\ fin = NoResult
    /\ fout = NoResult
    /\ layout = BackgroundLayout
    /\ have = {}
    /\ prio = [p \in Pieces(layout) |-> 4]
    /\ hs = <<>>
    /\ pc = "unborn"
    /\ stop = FALSE
    /\ timer = 0
    /\ env = NoEnv
    /\ loc = [NoLocals EXCEPT !.mode = "background", !.state_file = TRUE]
    /\ trace = <<>>
    /\ result = NoOutcome
    /\ sfile = AbsentFile
    /\ parent = [NoProcess EXCEPT !.pc = "bg_start"]
    /\ query = [NoProcess EXCEPT !.pc = "idle"]
    /\ worker = NoWorker
    /\ chat = NoChat

NextBackground ==
    \/ ParentOpen1
    \/ ParentWrite
    \/ ParentSpawn
    \/ ParentOpen2
    \/ BgEntry
    \/ \E ok \in BOOLEAN : DlCreateSession(ok)
    \/ \E ok \in BOOLEAN : DlAddMagnet(ok)
    \/ MetaWaitDone
    \/ MetaWaitIter
    \/ \E due \in BOOLEAN : PollIter(due)
    \/ PollSeeding
    \/ PollExit
    \/ AfterLoop
    \/ ResumeWaitIter
    \/ ResumeWaitTimeout
    \/ DlFinally
    \/ DlRemove
    \/ UpdRead
    \/ UpdOpen
    \/ UpdWrite
    \/ BgReturn
    \/ QueryRead
    \/ QueryOpen
    \/ QueryWrite
    \/ Sigint
    \/ MetadataArrives
    \/ ResumeAlert
    \/ \E p \in Pieces(layout) : PieceArrives(p)

SpecBackground == InitBackground /\ [][NextBackground]_vars

(***************************************************************************)
(* stream.py: stream, _cleanup                                             *)
(***************************************************************************)
STREAM_BUFFER_MB == 5

\* buffer_pieces = max(20, (STREAM_BUFFER_MB * 1024 * 1024) // piece_length)
BufferPieces(l) == Max(20, (STREAM_BUFFER_MB * 1024 * 1024) \div l.piece_length)

\* target_piece = min(first_piece + buffer_pieces, last_piece)
TargetPiece(l) == Min(FileFirstPiece(l) + BufferPieces(l), FileLastPiece(l))

\* status.is_seeding: no wanted piece is missing
IsSeeding == \A p \in Pieces(layout) : prio[p] > 0 => p \in have

\* an exception inside the try block: StreamError is raised as it is, any
\* other exception as StreamError
StRaise ==
    /\ loc' = [loc EXCEPT !.exc = "StreamError"]
    /\ pc' = "st_finally"
    /\ trace' = Append(trace, "exit")

\* a return statement inside the try block
StReturnWith(status) ==
    /\ loc' = [loc EXCEPT !.ret = status]
    /\ pc' = "st_finally"
    /\ trace' = Append(trace, "exit")

\* stream() up to the try block: save_path.mkdir, the SIGINT handler
StBegin ==
    /\ pc = "st_start"
    /\ env' = [env EXCEPT !.dir = TRUE, !.sigint = "handler"]
    /\ pc' = "st_session"
    /\ trace' = Append(trace, "start")
    /\ UNCHANGED <<fin, fout, layout, have, prio, hs, stop, timer, loc, result>>
    /\ UNCHANGED xvars

\* session = _create_session()
StCreateSession(ok) ==
    /\ pc = "st_session"
    /\ IF ok
       THEN /\ env' = [env EXCEPT !.session = TRUE]
            /\ pc' = "st_add"
            /\ UNCHANGED <<loc, trace>>
       ELSE /\ StRaise
            /\ UNCHANGED env
    /\ UNCHANGED <<fin, fout, layout, have, prio, hs, stop, timer, result>>
    /\ UNCHANGED xvars

\* handle = _add_magnet(session, magnet, save_path, trackers)
StAddMagnet(ok) ==
    /\ pc = "st_add"
    /\ IF ok
       THEN /\ env' = [env EXCEPT !.torrent = "added"]
            /\ pc' = "meta_wait"
            /\ UNCHANGED <<loc, trace>>
       ELSE /\ StRaise
            /\ UNCHANGED env
    /\ timer' = 0
    /\ UNCHANGED <<fin, fout, layout, have, prio, hs, stop, result>>
    /\ UNCHANGED xvars

\* _select_media_file, _file_piece_range, _prioritize_for_streaming with
\* the default buffer, _make_handler.  prioritize_pieces gives every piece
\* its priority, the ones prioritize_files had set included.
StSelect ==
    /\ pc = "select"
    /\ IF SelectMediaFile(layout.files).kind = "selected"
       THEN /\ prio' = PrioritizeForStreaming(NumPieces(layout), FileFirstPiece(layout),
                                              FileLastPiece(layout), DEFAULT_BUFFER_PIECES)
            /\ pc' = "st_server"
            /\ UNCHANGED <<loc, trace>>
       ELSE /\ StRaise
            /\ UNCHANGED prio
    /\ UNCHANGED <<fin, fout, layout, have, hs, stop, timer, env, result>>
    /\ UNCHANGED xvars

\* server = _start_http_server(port, handler): the port may be taken
StStartServer(ok) ==
    /\ pc = "st_server"
    /\ IF ok
       THEN /\ env' = [env EXCEPT !.server = "serving"]
            /\ pc' = "buffering"
            /\ UNCHANGED <<loc, trace>>
       ELSE /\ StRaise
            /\ UNCHANGED env
    /\ UNCHANGED <<fin, fout, layout, have, prio, hs, stop, timer, result>>
    /\ UNCHANGED xvars

\* one iteration of the buffering loop: status = handle.status() with no
\* post_torrent_updates before it, break when the pieces
\* first_piece..target_piece are there, otherwise sleep(0.5)
BufferIter ==
    /\ pc = "buffering"
    /\ ~stop
    /\ LET buffered == Range(FileFirstPiece(layout), TargetPiece(layout) + 1) \subseteq have
       IN  pc' = IF buffered THEN "after_buffer" ELSE "buffering"
    /\ loc' = [loc EXCEPT !.status_bound = TRUE, !.flushed = FALSE,
                          !.progress = Cardinality(have)]
    /\ UNCHANGED <<fin, fout, layout, have, prio, hs, stop, timer, env, trace, result>>
    /\ UNCHANGED xvars

\* the buffering loop's test finds the stop flag set
BufferExit ==
    /\ pc = "buffering"
    /\ stop
    /\ pc' = "after_buffer"
    /\ UNCHANGED <<fin, fout, layout, have, prio, hs, stop, timer, env, loc, trace, result>>
    /\ UNCHANGED xvars

\* "if stop_event.is_set(): return cancelled"; otherwise the player is
\* resolved and launched, or none is found
AfterBuffer(launched) ==
    /\ pc = "after_buffer"
    /\ IF stop
       THEN /\ StReturnWith("cancelled")
            /\ UNCHANGED env
       ELSE /\ env' = [env EXCEPT !.player = IF launched THEN "running" ELSE "none"]
            /\ pc' = "main_loop"
            /\ UNCHANGED <<loc, trace>>
    /\ UNCHANGED <<fin, fout, layout, have, prio, hs, stop, timer, result>>
    /\ UNCHANGED xvars

\* the player's process ends
PlayerExits ==
    /\ env.player = "running"
    /\ env' = [env EXCEPT !.player = "exited"]
    /\ UNCHANGED <<fin, fout, layout, have, prio, hs, pc, stop, timer, loc, trace, result>>
    /\ UNCHANGED xvars

\* one iteration of the main loop: post_torrent_updates, status, the
\* player's exit (on a terminal the user may answer yes: player_proc = None),
\* break when seeding, otherwise sleep(1)
MainIter(answer) ==
    /\ pc = "main_loop"
    /\ ~stop
    /\ LET exited == env.player = "exited"
           leave == (exited /\ answer # "yes") \/ IsSeeding
       IN  /\ env' = IF exited /\ answer = "yes" THEN [env EXCEPT !.player = "none"] ELSE env
           /\ pc' = IF leave THEN "st_return" ELSE "main_loop"
    /\ loc' = [loc EXCEPT !.status_bound = TRUE, !.flushed = TRUE,
                          !.progress = Cardinality(have), !.is_seeding = IsSeeding]
    /\ UNCHANGED <<fin, fout, layout, have, prio, hs, stop, timer, trace, result>>
    /\ UNCHANGED xvars

\* the main loop's test finds the stop flag set
MainExit ==
    /\ pc = "main_loop"
    /\ stop
    /\ pc' = "st_return"
    /\ UNCHANGED <<fin, fout, layout, have, prio, hs, stop, timer, env, loc, trace, result>>
    /\ UNCHANGED xvars

\* return completed if handle.status().is_seeding, else stopped
StReturn ==
    /\ pc = "st_return"
    /\ StReturnWith(IF IsSeeding THEN "completed" ELSE "stopped")
    /\ UNCHANGED <<fin, fout, layout, have, prio, hs, stop, timer, env, result>>
    /\ UNCHANGED xvars

\* finally: signal.signal(signal.SIGINT, original_sigint), then _cleanup
StFinally ==
    /\ pc = "st_finally"
    /\ env' = [env EXCEPT !.sigint = RestoredSigint]
    /\ pc' = "cleanup_server"
    /\ UNCHANGED <<fin, fout, layout, have, prio, hs, stop, timer, loc, trace, result>>
    /\ UNCHANGED xvars

\* _cleanup: if server: server.shutdown().  The test is on the server
\* object, which stays what it is after a shutdown.
CleanupServer ==
    /\ pc = "cleanup_server"
    /\ IF env.server # "none"
       THEN /\ env' = [env EXCEPT !.server = "shutdown"]
            /\ trace' = Append(trace, "shutdown")
       ELSE UNCHANGED <<env, trace>>
    /\ pc' = "cleanup_torrent"
    /\ UNCHANGED <<fin, fout, layout, have, prio, hs, stop, timer, loc, result>>
    /\ UNCHANGED xvars

\* _cleanup: if session and handle: session.remove_torrent(handle).  The
\* test is on the two objects.  For a handle whose torrent is already
\* removed the engine either does nothing or raises; what it raises leaves
\* _cleanup before the directory is looked at.
CleanupTorrent(raises) ==
    /\ pc = "cleanup_torrent"
    /\ IF env.session /\ env.torrent # "none"
       THEN /\ trace' = Append(trace, "remove_torrent")
            /\ IF env.torrent = "removed" /\ raises
               THEN /\ result' = [NoOutcome EXCEPT !.kind = "raise", !.error = "RuntimeError"]
                    /\ pc' = "done"
                    /\ UNCHANGED env
               ELSE /\ env' = [env EXCEPT !.torrent = "removed"]
                    /\ pc' = "cleanup_dir"
                    /\ UNCHANGED result
       ELSE /\ pc' = "cleanup_dir"
            /\ UNCHANGED <<env, trace, result>>
    /\ UNCHANGED <<fin, fout, layout, have, prio, hs, stop, timer, loc>>
    /\ UNCHANGED xvars

\* the directory is removed whatever keep says
ShouldDeleteAlways(keep, exists) == exists

\* if not keep and save_path and save_path.exists()
ShouldDelete(keep, exists) == ~keep /\ exists

\* _cleanup: shutil.rmtree(save_path) unless keep, OSError ignored; then
\* stream() returns or raises
CleanupDir(ok) ==
    /\ pc = "cleanup_dir"
    /\ IF ShouldDelete(loc.keep, env.dir)
       THEN /\ env' = [env EXCEPT !.dir = ~ok]
            /\ trace' = Append(trace, IF ok THEN "rmtree" ELSE "rmtree OSError")
       ELSE UNCHANGED <<env, trace>>
    /\ result' = IF loc.exc # ""
                 THEN [NoOutcome EXCEPT !.kind = "raise", !.error = loc.exc]
                 ELSE [NoOutcome EXCEPT !.kind = "return", !.status = loc.ret,
                                        !.progress = loc.progress]
    /\ pc' = "done"
    /\ UNCHANGED <<fin, fout, layout, have, prio, hs, stop, timer, loc>>
    /\ UNCHANGED xvars

InitStream ==
    /\ fin = NoResult
    /\ fout = NoResult
    /\ layout \in AllLayouts
    /\ have = {}
    /\ prio = [p \in Pieces(layout) |-> 4]
    /\ hs = <<>>
    /\ pc = "st_start"
    /\ stop = FALSE
    /\ timer = 0
    /\ env = NoEnv
    /\ \E keep \in BOOLEAN : loc = [NoLocals EXCEPT !.mode = "stream", !.keep = keep]
    /\ trace = <<>>
    /\ result = NoOutcome
    /\ NoBackground

NextStream ==
    \/ StBegin
    \/ \E ok \in BOOLEAN : StCreateSession(ok)
    \/ \E ok \in BOOLEAN : StAddMagnet(ok)
    \/ MetaWaitDone
    \/ MetaWaitIter
    \/ StSelect
    \/ \E ok \in BOOLEAN : StStartServer(ok)
    \/ BufferIter
    \/ BufferExit
    \/ \E launched \in BOOLEAN : AfterBuffer(launched)
    \/ \E answer \in {"yes", "no"} : MainIter(answer)
    \/ MainExit
    \/ StReturn
    \/ StFinally
    \/ CleanupServer
    \/ \E raises \in BOOLEAN : CleanupTorrent(raises)
    \/ \E ok \in BOOLEAN : CleanupDir(ok)
    \/ Sigint
    \/ MetadataArrives
    \/ PlayerExits
    \/ \E p \in Pieces(layout) : PieceArrives(p)

SpecStream == InitStream /\ [][NextStream]_vars

\* the parent had returned before download_torrent started in the
\* background process, and no status command has run
UndisturbedBackground ==
    /\ pc = "done"
    /\ parent.out = "returned first"
    /\ query.pc = "idle"
    /\ query.out = ""

\* C11: for a background download every status transition (to completed,
\* to interrupted, to failed) is written to the state file when it happens:
\* once the background process has ended, the file's status is not
\* downloading.  Stated for the runs where nothing else writes the file
\* while the background process does.
C11_TransitionsRecorded ==
    UndisturbedBackground => (sfile.kind = "record" /\ sfile.status # "downloading")

\* C12: the state file is replaced atomically: a reader that reads it at
\* any moment, also while a write is in progress, obtains a complete
\* parseable record.  Here the reader is the status command.
C12_ReadsComplete == query.out # "JSONDecodeError"

\* the status command reads a record and resolves its status
QueryResolves == query.pc = "idle" /\ query'.pc = "open"

\* the first three statements of C13, for the record read and the status
\* resolved in this step
ResolvedAsStated ==
    LET stored == sfile.status
        resolved == query'.state.status
        ended == sfile.pid = ChildPid /\ pc = "done"
        running == pc \notin {"unborn", "done"}
    IN  /\ stored # "downloading" => resolved = stored
        /\ (stored = "downloading" /\ ended)
               => resolved = (IF env.dir /\ have # {} THEN "completed" ELSE "failed")
        /\ (stored = "downloading" /\ running) => resolved = "downloading"

AllBefore(e, f) == \A i \in At(e), j \in At(f) : i < j

\* C8: teardown of an engine operation (stream, download) runs in the order:
\* the serving loop stops, a resume-data save is requested, the torrent is
\* removed from the session, the working directory is deleted unless keep
\* was asked for.  The torrent is never removed before the resume-data save
\* has been requested.
C8_TeardownOrder ==
    /\ At("remove_torrent") # {} => Before("save_resume_data", "remove_torrent")
    /\ AllBefore("shutdown", "save_resume_data")
    /\ AllBefore("shutdown", "remove_torrent")
    /\ AllBefore("remove_torrent", "rmtree")
    /\ At("rmtree") # {} => ~loc.keep

\* _cleanup is called once more with the same server, session, handle
CleanupAgain ==
    /\ pc = "done"
    /\ loc.mode = "cleanup"
    /\ result.kind # "raise"
    /\ Cardinality(At("cleanup")) < 2
    /\ pc' = "cleanup_server"
    /\ trace' = Append(trace, "cleanup")
    /\ UNCHANGED <<fin, fout, layout, have, prio, hs, stop, timer, env, loc, result>>
    /\ UNCHANGED xvars

\* _cleanup called with what stream() holds when it reaches finally
InitCleanup ==
    /\ fin = NoResult
    /\ fout = NoResult
    /\ layout \in AllLayouts
    /\ have = {}
    /\ prio = [p \in Pieces(layout) |-> 4]
    /\ hs = <<>>
    /\ pc = "cleanup_server"
    /\ stop = FALSE
    /\ timer = 0
    /\ \E server \in {"none", "serving"}, session \in BOOLEAN, added \in BOOLEAN,
          dir \in BOOLEAN :
          /\ added => session
          /\ server = "serving" => added
          /\ env = [NoEnv EXCEPT !.server = server, !.session = session,
                                 !.torrent = IF added THEN "added" ELSE "none",
                                 !.metadata = added, !.dir = dir]
    /\ \E keep \in BOOLEAN : loc = [NoLocals EXCEPT !.mode = "cleanup", !.keep = keep]
    /\ trace = <<"cleanup">>
    /\ result = NoOutcome
    /\ NoBackground

NextCleanup ==
    \/ CleanupServer
    \/ \E raises \in BOOLEAN : CleanupTorrent(raises)
    \/ \E ok \in BOOLEAN : CleanupDir(ok)
    \/ CleanupAgain

SpecCleanup == InitCleanup /\ [][NextCleanup]_vars

\* C14: teardown is idempotent: _cleanup run twice for the same session and
\* handle raises no error, removes the torrent from the session once and
\* shuts the HTTP server down once.
C14_TeardownIdempotent ==
    /\ result.kind # "raise"
    /\ Cardinality(At("remove_torrent")) <= 1
    /\ Cardinality(At("shutdown")) <= 1

(***************************************************************************)
(* server/worker.py: _download_and_notify.  Its times are in seconds.      *)
(***************************************************************************)
POLL_INTERVAL == 15
POLL_TIMEOUT == 3600

\* what "atb download ... --bg --json" gives _run_atb: nothing (the command
\* failed or printed no JSON), JSON without a "download" entry, a "download"
\* entry without an id, a "download" entry with id and path, or no answer
\* within the timeout of subprocess.run
DownloadOutputs == {"none", "no download", "no id", "started", "TimeoutExpired"}

\* what "atb status <id> --json" gives _run_atb
StatusOutputs == {"none", "downloading", "completed", "failed", "interrupted",
                  "TimeoutExpired"}

\* the polling would stop with the download taken as done
InitialFinalStatusDone == "completed"

\* final_status = "failed"
InitialFinalStatus == "failed"

\* sms.send, _organize_files, scan_library: the call is noted
Note(w, event) == [w EXCEPT !.log = Append(@, event)]

\* _download_and_notify up to the download command: without a magnet the
\* user is told so
WkStart(has_magnet) ==
    /\ worker.pc = "start"
    /\ worker' = IF has_magnet THEN [worker EXCEPT !.pc = "download"]
                 ELSE [Note(worker, "sms no link") EXCEPT !.pc = "done"]
    /\ UNCHANGED <<fin, fout, layout, have, prio, hs, pc, stop, timer, env, loc, trace, result>>
    /\ UNCHANGED <<sfile, parent, query, chat>>

\* download_audiobook, then the test of its result and of the download id
WkDownload(out) ==
    /\ worker.pc = "download"
    /\ worker' = IF out = "TimeoutExpired" THEN [worker EXCEPT !.pc = "raised"]
                 ELSE IF out = "started"
                 THEN [worker EXCEPT !.pc = "polling", !.elapsed = 0,
                                     !.final_status = InitialFinalStatus,
                                     !.notified = FALSE]
                 ELSE [Note(worker, "sms not started") EXCEPT !.pc = "done"]
    /\ UNCHANGED <<fin, fout, layout, have, prio, hs, pc, stop, timer, env, loc, trace, result>>
    /\ UNCHANGED <<sfile, parent, query, chat>>

\* one iteration of "while elapsed < POLL_TIMEOUT": sleep, the status
\* command, break on completed and on failed, else the first-time message
WkPoll(out) ==
    /\ worker.pc = "polling"
    /\ worker.elapsed < POLL_TIMEOUT
    /\ LET w == [worker EXCEPT !.elapsed = @ + POLL_INTERVAL, !.polled = out]
       IN  worker' =
               IF out = "TimeoutExpired" THEN [w EXCEPT !.pc = "raised"]
               ELSE IF out = "none" THEN w
               ELSE IF out \in {"completed", "failed"}
               THEN [w EXCEPT !.final_status = out, !.pc = "after_poll"]
               ELSE IF ~w.notified
               THEN [Note(w, "sms downloading") EXCEPT !.notified = TRUE]
               ELSE w
    /\ UNCHANGED <<fin, fout, layout, have, prio, hs, pc, stop, timer, env, loc, trace, result>>
    /\ UNCHANGED <<sfile, parent, query, chat>>

\* the loop test fails: POLL_TIMEOUT has elapsed
WkPollTimeout ==
    /\ worker.pc = "polling"
    /\ worker.elapsed >= POLL_TIMEOUT
    /\ worker' = [worker EXCEPT !.pc = "after_poll"]
    /\ UNCHANGED <<fin, fout, layout, have, prio, hs, pc, stop, timer, env, loc, trace, result>>
    /\ UNCHANGED <<sfile, parent, query, chat>>

\* if final_status != "completed": the failure message, return
WkAfterPoll ==
    /\ worker.pc = "after_poll"
    /\ worker' = IF worker.final_status # "completed"
                 THEN [Note(worker, "sms failed") EXCEPT !.pc = "done"]
                 ELSE [worker EXCEPT !.pc = "organize"]
    /\ UNCHANGED <<fin, fout, layout, have, prio, hs, pc, stop, timer, env, loc, trace, result>>
    /\ UNCHANGED <<sfile, parent, query, chat>>

\* _organize_files; an exception is answered with a message, return
WkOrganize(ok) ==
    /\ worker.pc = "organize"
    /\ worker' = IF ok THEN [Note(worker, "organize") EXCEPT !.pc = "scan"]
                 ELSE [Note(Note(worker, "organize"), "sms error") EXCEPT !.pc = "done"]
    /\ UNCHANGED <<fin, fout, layout, have, prio, hs, pc, stop, timer, env, loc, trace, result>>
    /\ UNCHANGED <<sfile, parent, query, chat>>

\* scan_library, a failure only logged; then the ready message
WkScan ==
    /\ worker.pc = "scan"
    /\ worker' = [Note(Note(worker, "scan"), "sms ready") EXCEPT !.pc = "done"]
    /\ UNCHANGED <<fin, fout, layout, have, prio, hs, pc, stop, timer, env, loc, trace, result>>
    /\ UNCHANGED <<sfile, parent, query, chat>>

InitWorker ==
    /\ fin = NoResult
    /\ fout = NoResult
    /\ NoServer
    /\ NoOperation
    /\ sfile = AbsentFile
    /\ parent = NoProcess
    /\ query = NoProcess
    /\ worker = [NoWorker EXCEPT !.pc = "start"]
    /\ chat = NoChat

NextWorker ==
    \/ \E has_magnet \in BOOLEAN : WkStart(has_magnet)
    \/ \E out \in DownloadOutputs : WkDownload(out)
    \/ \E out \in StatusOutputs : WkPoll(out)
    \/ WkPollTimeout
    \/ WkAfterPoll
    \/ \E ok \in BOOLEAN : WkOrganize(ok)
    \/ WkScan

SpecWorker == InitWorker /\ [][NextWorker]_vars

\* the post-processing calls among the noted ones
PostProcessing == {i \in 1..Len(worker.log) : worker.log[i] \in {"organize", "scan", "sms ready"}}

\* C20: the post-processing of the SMS worker (moving the files, the library
\* rescan, the ready message) runs only after a status poll returned
\* completed: not after failed, not after the poll timeout, not when the
\* download did not start.
C20_PostProcessingAfterCompleted ==
    PostProcessing # {} =>
        /\ worker.polled = "completed"
        /\ worker.final_status = "completed"
        /\ worker.elapsed > 0

\* the ready message has gone out after a poll returned completed
C20_Witness ==
    /\ worker.pc = "done"
    /\ worker.polled = "completed"
    /\ worker.log[Len(worker.log)] = "sms ready"

(***************************************************************************)
(* The state file as text: json.dumps in _write_state and                  *)
(* _update_state_progress, json.loads in _read_state.  A progress value is *)
(* a whole number of units of 10^-(ROUND_DIGITS + MoreDigits).             *)
(***************************************************************************)
ROUND_DIGITS == 4
MoreDigits == 1
MaxNear == 12

Unit == 10 ^ MoreDigits
One == 10 ^ (ROUND_DIGITS + MoreDigits)

\* the status values of the progress state
StatusValues == {"pending", "downloading", "buffering", "streaming", "completed",
                 "interrupted", "failed", "cancelled"}

\* round(progress, 4) with the digits beyond the fourth dropped
RoundDown(progress) == {(progress \div Unit) * Unit}

\* round(progress, 4): the nearest multiple of 10^-4.  A decimal that lies
\* halfway has no exact float; the float nearest to it lies on either side.
Round(progress) ==
    LET below == (progress \div Unit) * Unit
        rest == progress % Unit
    IN  IF 2 * rest < Unit THEN {below}
        ELSE IF 2 * rest > Unit THEN {below + Unit}
        ELSE {below, below + Unit}

\* the digits of n, most significant first, in the given number of places
RECURSIVE Digits(_, _)
Digits(n, places) ==
    IF places = 0 THEN <<>> ELSE Append(Digits(n \div 10, places - 1), n % 10)

\* repr of a float: the shortest digits that give the float back, at least
\* one after the point
RECURSIVE Shortest(_)
Shortest(digits) ==
    IF Len(digits) > 1 /\ digits[Len(digits)] = 0
    THEN Shortest(SubSeq(digits, 1, Len(digits) - 1))
    ELSE digits

FloatText(progress) ==
    <<progress \div One, ".">> \o Shortest(Digits(progress % One, ROUND_DIGITS + MoreDigits))

\* the float that json.loads reads from the text of a number
RECURSIVE Fraction(_, _)
Fraction(digits, weight) ==
    IF digits = <<>> THEN 0
    ELSE Head(digits) * weight + Fraction(Tail(digits), weight \div 10)

FloatValue(text) == text[1] * One + Fraction(SubSeq(text, 3, Len(text)), One \div 10)

\* json.dumps(state, indent=2): the members in the order of the dict
Dumps(state) ==
    <<"{", "\"status\"", ":", <<"\"", state.status, "\"">>, ",",
      "\"progress\"", ":", FloatText(state.progress), "}">>

\* json.loads
Loads(text) == [status |-> text[4][2], progress |-> FloatValue(text[8])]

\* the record before the write: what _execute_download_bg wrote
StartedState == [status |-> "downloading", progress |-> 0]

\* _write_state(state): the text is that of the state given
WriteState(state) == {Dumps(state)}

\* _update_state_progress(state_file, progress, status): the record read,
\* the progress rounded, the status replaced when one is given
UpdateStateProgress(old, progress, status) ==
    {Dumps([status |-> IF status # "" THEN status ELSE old.status, progress |-> r]) :
        r \in Round(progress)}

\* progress values in [0,1]: those near 0, near 1 and near the middle
ProgressValues ==
    {n \in 0..One : \/ n <= MaxNear
                    \/ n >= One - MaxNear
                    \/ (n >= One \div 2 - MaxNear /\ n <= One \div 2 + MaxNear)}

StateInputs ==
    [fn : {"_write_state"}, status : StatusValues, progress : ProgressValues]
    \cup [fn : {"_update_state_progress"}, status : StatusValues \cup {""},
          progress : ProgressValues]

InitState ==
    /\ fin \in StateInputs
    /\ fout = NoResult
    /\ NoServer
    /\ NoOperation
    /\ NoBackground

\* the write of the state file
CallWrite ==
    /\ fout = NoResult
    /\ \E text \in IF fin.fn = "_write_state"
                   THEN WriteState([status |-> fin.status, progress |-> fin.progress])
                   ELSE UpdateStateProgress(StartedState, fin.progress, fin.status) :
           fout' = [kind |-> "written", text |-> text]
    /\ UNCHANGED <<fin, layout, have, prio, hs>>
    /\ UNCHANGED opvars
    /\ UNCHANGED xvars

\* _read_state of the file written
CallReadState ==
    /\ fout.kind = "written"
    /\ fout' = [kind |-> "read", text |-> fout.text, state |-> Loads(fout.text)]
    /\ UNCHANGED <<fin, layout, have, prio, hs>>
    /\ UNCHANGED opvars
    /\ UNCHANGED xvars

NextState == CallWrite \/ CallReadState

SpecState == InitState /\ [][NextState]_vars

\* C21: for every status and every progress value in [0,1], writing
\* {status, progress} to the state file and reading the file back yields the
\* identical status and the identical progress.
C21_RoundTrip ==
    (fout.kind = "read" /\ fin.status # "") =>
        /\ fout.state.status = fin.status
        /\ fout.state.progress = fin.progress

\* C21 as the code has it: _write_state gives back what was written;
\* _update_state_progress gives back the status and the progress rounded to
\* four decimal places, which is the progress itself when it has no more
\* than four.
C21_RoundTripRounded ==
    (fout.kind = "read" /\ fin.status # "") =>
        /\ fout.state.status = fin.status
        /\ fin.fn = "_write_state" => fout.state.progress = fin.progress
        /\ fin.fn = "_update_state_progress" =>
               /\ fout.state.progress % Unit = 0
               /\ 2 * (fout.state.progress - fin.progress) <= Unit
               /\ 2 * (fin.progress - fout.state.progress) <= Unit

\* a progress with a fifth decimal has been written by the update and read
\* back rounded up
C21_Witness ==
    /\ fout.kind = "read"
    /\ fin.fn = "_update_state_progress"
    /\ fin.status = "completed"
    /\ fin.progress % Unit # 0
    /\ fout.state.progress > fin.progress

\* C22: every status value the core hands out (returned by stream(),
\* returned by download_torrent(), written to the state file, produced by
\* status resolution) is one of pending, downloading, buffering, streaming,
\* completed, interrupted, failed, cancelled, and progress is within [0,1]:
\* here, no more pieces than the torrent has.
C22_StatusValues ==
    /\ result.kind = "return" =>
           /\ result.status \in StatusValues
           /\ result.progress \in 0..NumPieces(layout)
    /\ sfile.kind = "record" =>
           /\ sfile.status \in StatusValues
           /\ sfile.progress \in 0..NumPieces(layout)
    /\ query.pc = "open" =>
           /\ query.state.status \in StatusValues
           /\ query.state.progress \in 0..NumPieces(layout)

(***************************************************************************)
(* Two request handlers at once: ThreadingHTTPServer runs every request in *)
(* a thread of its own, on one torrent handle.                             *)
(***************************************************************************)
\* a torrent long enough for the look-ahead to end before the file does;
\* nothing of it is there, or the head that stream() buffers, or all of it
LongLayout ==
    LayoutOf([files |-> <<[path |-> "readme.txt", name |-> "readme.txt",
                           suffix |-> ".txt", size |-> 5000],
                          [path |-> "movie.mkv", name |-> "movie.mkv",
                           suffix |-> ".mkv", size |-> 245760]>>,
              piece_length |-> 4096])

\* the Range headers of the two requests: at the start, in the middle, open
\* to the end of the file, and one without a start
ConcurrentHeaders ==
    {<<Token.bytes_eq, 0, Token.dash, 1023>>,
     <<Token.bytes_eq, 90000, Token.dash, 90010>>,
     <<Token.bytes_eq, 120000, Token.dash>>,
     <<Token.bytes_eq, Token.dash, 1023>>}

\* _prioritize_for_streaming(handle, first_piece, last_piece) in stream()
StreamingPriorities(l) ==
    PrioritizeForStreaming(NumPieces(l), FileFirstPiece(l), FileLastPiece(l),
                           DEFAULT_BUFFER_PIECES)

InitConcurrent ==
    /\ fin = NoResult
    /\ fout = NoResult
    /\ layout = LongLayout
    /\ have \in {{}, Range(0, DEFAULT_BUFFER_PIECES), Pieces(layout)}
    /\ prio = StreamingPriorities(layout)
    /\ hs = [h \in {1, 2} |-> IdleHandler]
    /\ pc = "serving"
    /\ stop = FALSE
    /\ timer = 0
    /\ env = [NoEnv EXCEPT !.session = TRUE, !.torrent = "added", !.metadata = TRUE,
                           !.server = "serving", !.dir = TRUE, !.sigint = "handler"]
    /\ loc = [NoLocals EXCEPT !.mode = "stream"]
    /\ trace = <<>>
    /\ result = NoOutcome
    /\ NoBackground

NextConcurrent ==
    \/ \E h \in DOMAIN hs :
          \/ HandleRequest(h, "GET", FALSE, <<>>)
          \/ \E header \in ConcurrentHeaders : HandleRequest(h, "GET", TRUE, header)
    \/ \E h \in DOMAIN hs : WaitPoll(h)
    \/ \E h \in DOMAIN hs : WaitTimeout(h)
    \/ \E h \in DOMAIN hs, d \in DiskLengths(layout, have), gone \in BOOLEAN :
          Respond(h, d, gone)

SpecConcurrent == InitConcurrent /\ [][NextConcurrent]_vars

\* handler h has asked for its pieces
HasBumped(h) == hs[h].pc # "idle" /\ hs[h].resp.status # 400

\* the pieces of handler h's range and of the look-ahead behind it, up to
\* the last piece of the file
Elevated(h) ==
    {p \in Pieces(layout) : /\ hs[h].needed_first <= p
                            /\ p < hs[h].needed_last + LOOKAHEAD
                            /\ p <= FileLastPiece(layout)}

\* the priorities stream() has set when the server starts
LongPriorities == StreamingPriorities(LongLayout)

\* the pieces the handlers that have asked have put to the top
TopPieces == UNION {IF HasBumped(h) THEN Elevated(h) ELSE {} : h \in DOMAIN hs}

\* the initial priorities with these pieces at the top
RaisedPriorities ==
    LET top == TopPieces
    IN  [p \in Pieces(layout) |-> IF p \in top THEN TOP_PRIORITY ELSE LongPriorities[p]]

\* C23: the priority bumps of the range handlers commute and only raise
\* priorities: in every interleaving of the handlers the priority map is the
\* initial one with the pieces of every handler that has asked at top
\* priority; a handler that starts waiting has put every piece of its range
\* and of the look-ahead, capped at the file's last piece, to the top; no
\* step lowers the priority of a piece.
C23_BumpsCommute ==
    /\ [](prio = RaisedPriorities)
    /\ [][/\ \A p \in Pieces(layout) : prio'[p] >= prio[p]
          /\ \A h \in DOMAIN hs :
                 (hs[h].pc = "idle" /\ hs'[h].pc = "waiting") =>
                     /\ Range(hs'[h].needed_first, hs'[h].needed_last + 1)
                            \subseteq Elevated(h)'
                     /\ Elevated(h)' \subseteq TopPieces']_vars

\* both handlers have asked, for different ranges, and between them they
\* have raised pieces that were not at the top
C23_Witness ==
    /\ HasBumped(1)
    /\ HasBumped(2)
    /\ Elevated(1) \ Elevated(2) # {}
    /\ Elevated(2) \ Elevated(1) # {}
    /\ \E p \in Elevated(1) \ Elevated(2) : LongPriorities[p] < TOP_PRIORITY
    /\ \E p \in Elevated(2) \ Elevated(1) : LongPriorities[p] < TOP_PRIORITY
    /\ \E p \in Pieces(layout) : prio[p] < TOP_PRIORITY

(***************************************************************************)
(* server/worker.py: decide_action                                         *)
(***************************************************************************)
MaxResults == 3

\* a search result with its score, or without one
ScoredResults ==
    {[has_score |-> TRUE, score |-> s] : s \in {0, 60, 69, 70, 74, 75, 80, 84, 85, 100}}
    \cup {[has_score |-> FALSE, score |-> 0]}

\* results[i].get("score", 0), i counted from 0
ScoreOf(results, i) == IF results[i + 1].has_score THEN results[i + 1].score ELSE 0

\* a single result has to reach the threshold itself
SingleThresholdSame(threshold) == threshold

\* threshold - 10
SingleThreshold(threshold) == threshold - 10

\* decide_action; chosen_index None is -1
DecideAction(results, threshold, gap) ==
    IF Len(results) = 0
    THEN [kind |-> "decision", auto_download |-> FALSE, chosen_index |-> -1,
          reason |-> "no results"]
    ELSE LET top_score == ScoreOf(results, 0)
             second_score == IF Len(results) > 1 THEN ScoreOf(results, 1) ELSE 0
         IN  IF Len(results) = 1
             THEN IF top_score >= SingleThreshold(threshold)
                  THEN [kind |-> "decision", auto_download |-> TRUE, chosen_index |-> 0,
                        reason |-> "single clear match"]
                  ELSE [kind |-> "decision", auto_download |-> FALSE, chosen_index |-> -1,
                        reason |-> "single result, low confidence"]
             ELSE IF top_score >= threshold /\ (top_score - second_score) >= gap
                  THEN [kind |-> "decision", auto_download |-> TRUE, chosen_index |-> 0,
                        reason |-> "clear winner"]
                  ELSE [kind |-> "decision", auto_download |-> FALSE, chosen_index |-> -1,
                        reason |-> "ambiguous results"]

\* the default threshold and gap, and those of the test with its own
DecideInputs ==
    [fn : {"decide_action"},
     results : UNION {[1..n -> ScoredResults] : n \in 0..MaxResults},
     threshold : {85, 70},
     gap : {15, 10}]

InitDecide ==
    /\ fin \in DecideInputs
    /\ fout = NoResult
    /\ NoServer
    /\ NoOperation
    /\ NoBackground

CallDecideAction ==
    /\ fin.fn = "decide_action"
    /\ fout = NoResult
    /\ fout' = DecideAction(fin.results, fin.threshold, fin.gap)
    /\ UNCHANGED <<fin, layout, have, prio, hs>>
    /\ UNCHANGED opvars
    /\ UNCHANGED xvars

NextDecide == CallDecideAction

SpecDecide == InitDecide /\ [][NextDecide]_vars

\* the score the claim gives result i (from 1): 0 without one
Scored(i) == IF fin.results[i].has_score THEN fin.results[i].score ELSE 0

\* C24: decide_action chooses auto-download with chosen_index 0 exactly when
\* there is a single result with score >= threshold - 10, or there are two
\* or more results with top score >= threshold and top score minus second
\* score >= gap; in every other case, no results included, auto_download is
\* false and chosen_index is None.  A result without a score counts as 0.
C24_DecideAction ==
    fout.kind = "decision" =>
        LET n == Len(fin.results)
            auto == \/ n = 1 /\ Scored(1) >= fin.threshold - 10
                    \/ /\ n >= 2
                       /\ Scored(1) >= fin.threshold
                       /\ Scored(1) - Scored(2) >= fin.gap
        IN  /\ fout.auto_download = auto
            /\ fout.chosen_index = IF auto THEN 0 ELSE -1

\* a single result just at threshold - 10 has been chosen
C24_Witness ==
    /\ fout.kind = "decision"
    /\ Len(fin.results) = 1
    /\ fin.results[1].has_score
    /\ fin.results[1].score = fin.threshold - 10
    /\ fout.auto_download
    /\ fout.chosen_index = 0

(***************************************************************************)
(* server/llm.py: the per-phone conversation state; server/app.py:         *)
(* _try_quick_pick.  Times are in seconds.  get_pending_result,            *)
(* has_pending_results, store_pending_results and clear_conversation are   *)
(* modelled after their tests and the keyed-storage rule: a TTL check on   *)
(* every read.                                                             *)
(***************************************************************************)
CONVERSATION_TTL == 600
MaxClock == 1000

Phones == {"+1234", "+9999"}
NoConversation == [kind |-> "none", items |-> <<>>, ts |-> 0]
NoRead == [kind |-> "none"]

\* the time between two calls
ClockSteps == {300, 301}

\* the entry is taken as fresh for ever
ExpiredNever(now, ts) == ts - now > CONVERSATION_TTL

\* time.time() - conv["ts"] > CONVERSATION_TTL
Expired(now, ts) == now - ts > CONVERSATION_TTL

\* the entry of a phone after the TTL check of a read: an expired one is
\* deleted
Checked(phone) ==
    LET conv == chat.conversations[phone]
    IN  IF conv.kind # "none" /\ Expired(chat.now, conv.ts) THEN NoConversation ELSE conv

\* what a read found and what it returned: the age of the entry found (-1
\* when there was none) and the items given to the caller
ReadOf(fn, phone, items) ==
    [kind |-> fn, phone |-> phone, items |-> items,
     age |-> IF chat.conversations[phone].kind = "none" THEN -1
             ELSE chat.now - chat.conversations[phone].ts]

\* a read leaves the entry as the TTL check leaves it
AfterRead(fn, phone, items) ==
    /\ chat' = [chat EXCEPT !.conversations[phone] = Checked(phone),
                            !.read = ReadOf(fn, phone, items)]
    /\ UNCHANGED <<fin, fout, layout, have, prio, hs>>
    /\ UNCHANGED opvars
    /\ UNCHANGED <<sfile, parent, query, worker>>

\* time passes between the messages
ClockTick(d) ==
    /\ chat.now + d <= MaxClock
    /\ chat' = [chat EXCEPT !.now = @ + d, !.read = NoRead]
    /\ UNCHANGED <<fin, fout, layout, have, prio, hs>>
    /\ UNCHANGED opvars
    /\ UNCHANGED <<sfile, parent, query, worker>>

\* store_suggestions and store_pending_results: the entry is replaced
Store(kind, phone, items) ==
    /\ chat' = [chat EXCEPT !.conversations[phone] =
                                [kind |-> kind, items |-> items, ts |-> chat.now],
                            !.read = NoRead]
    /\ UNCHANGED <<fin, fout, layout, have, prio, hs>>
    /\ UNCHANGED opvars
    /\ UNCHANGED <<sfile, parent, query, worker>>

StoreSuggestions(phone, suggestions) == Store("suggestions", phone, suggestions)

StorePendingResults(phone, results) == Store("pending_results", phone, results)

\* clear_conversation
ClearConversation(phone) ==
    /\ chat' = [chat EXCEPT !.conversations[phone] = NoConversation, !.read = NoRead]
    /\ UNCHANGED <<fin, fout, layout, have, prio, hs>>
    /\ UNCHANGED opvars
    /\ UNCHANGED <<sfile, parent, query, worker>>

\* _get_context: the suggestions that go into the prompt
GetContext(phone) ==
    /\ AfterRead("_get_context", phone,
                 IF Checked(phone).kind = "suggestions" THEN Checked(phone).items ELSE <<>>)

\* the pending results a read gives: none for an expired entry or one that
\* holds suggestions
PendingResults(phone) ==
    IF Checked(phone).kind = "pending_results" THEN Checked(phone).items ELSE <<>>

\* get_pending_result(phone, index): the result at the 1-based index
PendingResult(phone, index) ==
    IF index >= 1 /\ index <= Len(PendingResults(phone))
    THEN <<PendingResults(phone)[index]>> ELSE <<>>

GetPendingResult(phone, index) ==
    /\ AfterRead("get_pending_result", phone, PendingResult(phone, index))

\* has_pending_results
HasPendingResults(phone) ==
    /\ AfterRead("has_pending_results", phone, PendingResults(phone))

\* _try_quick_pick: a query that is not all digits, or is below 1, picks
\* nothing and reads nothing; -1 stands for a query that is no number
TryQuickPick(query_index, phone) ==
    /\ IF query_index < 1
       THEN /\ chat' = [chat EXCEPT !.read = [kind |-> "_try_quick_pick", phone |-> phone,
                                              items |-> <<>>, age |-> -1]]
            /\ UNCHANGED <<fin, fout, layout, have, prio, hs>>
            /\ UNCHANGED opvars
            /\ UNCHANGED <<sfile, parent, query, worker>>
       ELSE AfterRead("_try_quick_pick", phone, PendingResult(phone, query_index))

InitChat ==
    /\ fin = NoResult
    /\ fout = NoResult
    /\ NoServer
    /\ NoOperation
    /\ sfile = AbsentFile
    /\ parent = NoProcess
    /\ query = NoProcess
    /\ worker = NoWorker
    /\ chat = [conversations |-> [phone \in Phones |-> NoConversation], now |-> 0,
               read |-> NoRead]

NextChat ==
    \/ \E d \in ClockSteps : ClockTick(d)
    \/ \E phone \in Phones : StoreSuggestions(phone, <<"Sug A", "Sug B">>)
    \/ \E phone \in Phones, results \in {<<"Book A", "Book B">>, <<"New Book">>} :
          StorePendingResults(phone, results)
    \/ \E phone \in Phones : ClearConversation(phone)
    \/ \E phone \in Phones : GetContext(phone)
    \/ \E phone \in Phones, index \in 0..3 : GetPendingResult(phone, index)
    \/ \E phone \in Phones : HasPendingResults(phone)
    \/ \E phone \in Phones, query_index \in -1..3 : TryQuickPick(query_index, phone)

SpecChat == InitChat /\ [][NextChat]_vars

\* C25: the per-phone conversation state is checked against its TTL on
\* every read: no read (pending-result lookup, has-pending check, quick pick
\* by digit, LLM context building) returns suggestions or pending results
\* stored more than CONVERSATION_TTL seconds earlier.
C25_NoStaleRead ==
    (chat.read.kind # "none" /\ chat.read.items # <<>>) =>
        /\ chat.read.age >= 0
        /\ chat.read.age <= CONVERSATION_TTL

\* the context was built from an entry older than the TTL, and gave nothing
C25_Witness ==
    /\ chat.read.kind = "_get_context"
    /\ chat.read.age > CONVERSATION_TTL
    /\ chat.read.items = <<>>
    /\ chat.conversations[chat.read.phone].kind = "none"

\* the pieces that hold the bytes handler h has written into its body
BodyPieces(h) ==
    IF hs[h].resp.body <= 0 THEN {}
    ELSE Range((layout.file_offset + hs[h].start) \div layout.piece_length,
               (layout.file_offset + hs[h].start + hs[h].resp.body - 1)
                   \div layout.piece_length + 1)

\* C26: every byte the HTTP server writes into a 200 or 206 response body
\* lies in a piece that the request's availability check saw present: the
\* pieces of the body are among those the wait of the same request tested.
C26_BodyFromCheckedPieces ==
    \A h \in DOMAIN hs :
        (hs[h].pc = "done" /\ hs[h].resp.status \in {200, 206}) =>
            BodyPieces(h) \subseteq Needed(h)

\* the background process has written the completed record
CompletedWritten ==
    /\ loc.upd_state.kind = "record"
    /\ loc.upd_state.status = "completed"
    /\ pc \notin {"upd_open", "upd_write"}

\* the parent has written the record with the pid
PidWritten == parent.pc = "returned"

\* C27: no update of the state file is lost under any interleaving of its
\* three writers: once the background process has written completed, the
\* file never shows downloading again, and the pid the parent has written
\* is never overwritten with null.
C27_NoLostUpdate ==
    sfile.kind = "record" =>
        /\ CompletedWritten => sfile.status # "downloading"
        /\ PidWritten => sfile.pid = ChildPid

(***************************************************************************)
(* stream() with a request handler in flight.  server.shutdown() ends      *)
(* serve_forever; the handler threads of ThreadingHTTPServer are daemon    *)
(* threads that nothing joins, and server_close() is not called.           *)
(***************************************************************************)
\* the server takes a request while serve_forever runs
AcceptRequest(h, has_range, header) ==
    /\ env.server = "serving"
    /\ HandleRequest(h, "GET", has_range, header)

\* handle.status() or handle.piece_priority() on the handle of a removed
\* torrent: the engine may raise, which ends the handler thread
HandlerRaises(h) ==
    /\ hs[h].pc = "waiting"
    /\ env.torrent = "removed"
    /\ hs' = [hs EXCEPT ![h].pc = "done"]
    /\ UNCHANGED <<fin, fout, layout, have, prio>>
    /\ UNCHANGED opvars
    /\ UNCHANGED xvars

\* the torrent is the one that holds the media file alone
InitServing ==
    /\ fin = NoResult
    /\ fout = NoResult
    /\ layout \in {l \in Layouts : l.file_offset = 0}
    /\ have = {}
    /\ prio = [p \in Pieces(layout) |-> 4]
    /\ hs = [h \in {1} |-> IdleHandler]
    /\ pc = "st_start"
    /\ stop = FALSE
    /\ timer = 0
    /\ env = NoEnv
    /\ \E keep \in BOOLEAN : loc = [NoLocals EXCEPT !.mode = "stream", !.keep = keep]
    /\ trace = <<>>
    /\ result = NoOutcome
    /\ NoBackground

NextServing ==
    \/ NextStream
    \/ \E h \in DOMAIN hs :
          \/ AcceptRequest(h, FALSE, <<>>)
          \/ AcceptRequest(h, TRUE, <<Token.bytes_eq, 0, Token.dash, 1023>>)
    \/ \E h \in DOMAIN hs : WaitPoll(h)
    \/ \E h \in DOMAIN hs : WaitTimeout(h)
    \/ \E h \in DOMAIN hs, d \in DiskLengths(layout, have), gone \in BOOLEAN :
          Respond(h, d, gone)
    \/ \E h \in DOMAIN hs : HandlerRaises(h)

SpecServing == InitServing /\ [][NextServing]_vars

\* handler h takes a turn of its wait loop: handle.status() is called
CallsStatus(h) ==
    /\ hs[h].pc = "waiting"
    /\ DeadlineOpen(hs[h].waited)
    /\ hs'[h] # hs[h]

\* handler h opens the media file and sends it
ReadsFile(h) ==
    /\ hs[h].pc = "ready"
    /\ hs'[h].pc = "done"
    /\ hs[h].method = "GET"
    /\ ~hs'[h].client_gone

\* C28: after the teardown of stream() has removed the torrent from the
\* session, no request handler still in flight reads the handle's status,
\* changes a piece priority or reads the media file.
C28_HandlersStoppedBeforeRemoval ==
    [][env.torrent = "removed" =>
          /\ prio' = prio
          /\ \A h \in DOMAIN hs : ~CallsStatus(h) /\ ~ReadsFile(h)]_vars

(***************************************************************************)
(* The worker's download command is the CLI's background download:         *)
(* download_audiobook runs "atb download <magnet> --title ... --bg --json",*)
(* which is cmd_download with _execute_download_bg.                        *)
(***************************************************************************)
\* the members of the state record of _execute_download_bg
StateKeys == {"id", "pid", "magnet", "title", "path", "cover", "started_at", "status",
              "progress"}

\* cmd_download with --bg --json: _json_out(state).  An output is the set
\* of its members and the set of members of its "download" member.
CmdDownloadOutput == [keys |-> StateKeys, download |-> {}]

\* _download_and_notify reads dl_result.get("download", {}).get("id")
ResultOf(output) ==
    IF output.keys = {} THEN "none"
    ELSE IF "download" \notin output.keys THEN "no download"
    ELSE IF "id" \notin output.download THEN "no id"
    ELSE "started"

\* the worker starts the command: the CLI process begins
CliStarts ==
    /\ worker.pc = "download"
    /\ ParentOpen1

\* subprocess.run gives the worker what the command printed
WkDownloadFromCli ==
    /\ parent.pc = "returned"
    /\ WkDownload(ResultOf(CmdDownloadOutput))

\* the command has not ended after SEARCH_TIMEOUT: subprocess.run raises
WkDownloadTimeout ==
    /\ parent.pc \notin {"bg_start", "returned"}
    /\ WkDownload("TimeoutExpired")

InitPipeline ==
    /\ fin = NoResult
    /\ fout = NoResult
    /\ layout = BackgroundLayout
    /\ have = {}
    /\ prio = [p \in Pieces(layout) |-> 4]
    /\ hs = <<>>
    /\ pc = "unborn"
    /\ stop = FALSE
    /\ timer = 0
    /\ env = NoEnv
    /\ loc = [NoLocals EXCEPT !.mode = "background", !.state_file = TRUE]
    /\ trace = <<>>
    /\ result = NoOutcome
    /\ sfile = AbsentFile
    /\ parent = [NoProcess EXCEPT !.pc = "bg_start"]
    /\ query = [NoProcess EXCEPT !.pc = "idle"]
    /\ worker = [NoWorker EXCEPT !.pc = "start"]
    /\ chat = NoChat

NextPipeline ==
    \/ \E has_magnet \in BOOLEAN : WkStart(has_magnet)
    \/ CliStarts
    \/ ParentWrite
    \/ ParentSpawn
    \/ ParentOpen2
    \/ BgEntry
    \/ QueryRead
    \/ QueryOpen
    \/ QueryWrite
    \/ WkDownloadFromCli
    \/ WkDownloadTimeout

SpecPipeline == InitPipeline /\ [][NextPipeline]_vars

\* C29: whenever the CLI's background download command has started a
\* download, _download_and_notify obtains the download's id and path from
\* the command output and goes on to poll its status; it reports that the
\* download did not start only when the command failed.
C29_WorkerPollsStartedDownload ==
    (parent.pc = "returned" /\ worker.pc \notin {"start", "download", "raised"}) =>
        /\ worker.pc = "polling"
        /\ \A i \in 1..Len(worker.log) : worker.log[i] # "sms not started"

\* the messages that tell the outcome
FinalMessages == {"sms ready", "sms failed", "sms not started", "sms error", "sms no link"}

\* where in the log the worker has sent a message of the given kinds
SentAt(kinds) == {i \in 1..Len(worker.log) : worker.log[i] \in kinds}

\* C30: every invocation of _download_and_notify ends: the polling stops on
\* completed, on failed or once POLL_TIMEOUT has elapsed, also when every
\* status query fails; it has then sent exactly one final outcome message
\* (ready or a failure) and at most one "Downloading now" message, none of
\* these after the final one.
C30_OneFinalMessage ==
    /\ worker.elapsed <= POLL_TIMEOUT
    /\ Cardinality(SentAt({"sms downloading"})) <= 1
    /\ Cardinality(SentAt(FinalMessages)) <= 1
    /\ \A i \in SentAt({"sms downloading"}), j \in SentAt(FinalMessages) : i < j
    /\ worker.pc \in {"done", "raised"} => Cardinality(SentAt(FinalMessages)) = 1

\* the error kind of the public operation
OwnError == IF loc.mode = "stream" THEN "StreamError" ELSE "TorrentError"

\* C15: whichever stage fails, stream() raises only StreamError and
\* download_torrent() only TorrentError, and when the operation has ended
\* with an error no added torrent is left in the session and no started
\* server is left serving.
C15_ErrorsTranslated ==
    /\ result.kind = "raise" => result.error = OwnError
    /\ (pc = "done" /\ result.kind = "raise")
           => (env.torrent # "added" /\ env.server # "serving")

\* stream() and the foreground download, each from its start
InitOperations == InitStream \/ InitDownload
NextOperations ==
    \/ NextDownload
    \/ StBegin
    \/ \E ok \in BOOLEAN : StCreateSession(ok)
    \/ \E ok \in BOOLEAN : StAddMagnet(ok)
    \/ StSelect
    \/ \E ok \in BOOLEAN : StStartServer(ok)
    \/ BufferIter
    \/ BufferExit
    \/ \E launched \in BOOLEAN : AfterBuffer(launched)
    \/ \E answer \in {"yes", "no"} : MainIter(answer)
    \/ MainExit
    \/ StReturn
    \/ StFinally
    \/ CleanupServer
    \/ \E raises \in BOOLEAN : CleanupTorrent(raises)
    \/ \E ok \in BOOLEAN : CleanupDir(ok)
    \/ PlayerExits
SpecOperations == InitOperations /\ [][NextOperations]_vars

\* C16: after stream() or a foreground download has ended, on every path,
\* the SIGINT disposition is the one in force before the operation started.
C16_SigintRestored == pc = "done" => env.sigint = "original"

\* an operation that had its handler called by SIGINT has ended with an
\* error, the former disposition back in place
C16_Witness ==
    /\ pc = "done"
    /\ At("sigint") # {}
    /\ result.kind = "raise"
    /\ env.sigint = "original"

WellFormed(header) ==
    /\ Len(header) \in {3, 4}
    /\ header[1] = Token.bytes_eq
    /\ header[2] >= 0
    /\ header[3] = Token.dash
    /\ Len(header) = 4 => header[4] >= 0

\* C18: every request whose Range header is not of the form bytes=start-end
\* (start a non-negative integer, end an integer or empty) is answered 400,
\* no piece priority raised, no wait for pieces, no file bytes sent.
C18_MalformedRange400 ==
    [][\A h \in DOMAIN hs, method \in {"GET", "HEAD"},
          header \in RangeHeaders(layout) \ {<<>>} :
          (~WellFormed(header) /\ HandleRequest(h, method, TRUE, header))
              => /\ hs'[h].pc = "done"
                 /\ hs'[h].resp.status = 400
                 /\ hs'[h].resp.body = 0
                 /\ prio' = prio]_vars

\* C19: every read of the handle's status in a polling loop (download loop,
\* stream buffering loop, stream main loop) is preceded, in the same
\* iteration, by post_torrent_updates.  loc.flushed says so of the latest
\* read.
C19_FlushBeforeStatus == loc.status_bound => loc.flushed

\* a step of the operation's own thread
OperationStep == <<pc, timer, loc>>' # <<pc, timer, loc>>

\* C9: the metadata wait loop, the poll loops (download loop, stream
\* buffering loop, stream main loop) and the HTTP handler's piece wait each
\* test the stop flag once per iteration: with the flag set, the next step
\* of the loop leaves it.
C9_LoopsObserveStop ==
    [][/\ (stop /\ pc \in {"meta_wait", "poll", "buffering", "main_loop"}
               /\ OperationStep)
           => pc' # pc
       /\ \A h \in DOMAIN hs :
             (stop /\ hs[h].pc = "waiting" /\ hs'[h] # hs[h])
                 => hs'[h].pc # "waiting"]_vars

\* SIGINT arrived after download_torrent had started, before a status read
\* reported seeding and before the function body was left; neither the
\* session nor the magnet failed
StoppedWhileDownloading ==
    /\ result.kind # "none"
    /\ result.error # "RuntimeError"
    /\ Before("start", "sigint")
    /\ Before("sigint", "is_seeding")
    /\ Before("sigint", "exit")

\* C10: when the stop flag is set after download_torrent has started and
\* before the engine reports seeding, download_torrent returns status
\* "interrupted" with the last observed progress, raises no error, and has
\* requested a resume-data save before it returns.
C10_StopGivesInterrupted ==
    StoppedWhileDownloading =>
        /\ result.kind = "return"
        /\ result.status = "interrupted"
        /\ result.progress = loc.progress
        /\ Before("save_resume_data", "remove_torrent")

====
